---- MODULE Spec2Model ----
(***************************************************************************)
(* The workflow graph interpreter of lelamp_runtime:                       *)
(* lelamp/service/workflows/workflow_service.py, class WorkflowService.    *)
(*                                                                         *)
(* The state is the fields of one WorkflowService object (plus the agent   *)
(* class the service registers tools on).  There is one action per public  *)
(* method.  Each action records the call it models in `call` and what the  *)
(* method returned (or raised) in `result`, so that properties can speak   *)
(* about arguments and return values.                                      *)
(***************************************************************************)
EXTENDS Naturals, Sequences, FiniteSets, TLC

(***************************************************************************)
(* Bounds.                                                                 *)
(***************************************************************************)
\* Largest number of keys in one state_updates dict.
MaxBatch == 2

(***************************************************************************)
(* Python values.  A value is its type name and its literal; str() is      *)
(* modelled by PyStr, not by the identity (str(True) is "True").           *)
(***************************************************************************)
PyNone == [t |-> "NoneType", s |-> "None"]
PyTrue == [t |-> "bool", s |-> "true"]
PyFalse == [t |-> "bool", s |-> "false"]
PyInt0 == [t |-> "int", s |-> "0"]
PyInt1 == [t |-> "int", s |-> "1"]
PyStrTrue == [t |-> "str", s |-> "true"]

\* str(v)
PyStr(v) ==
    IF v.t = "bool" THEN (IF v = PyTrue THEN "True" ELSE "False") ELSE v.s

\* Truthiness of a string (None is modelled as "").
Truthy(s) == s # ""

(***************************************************************************)
(* Workflow definitions: what Workflow.from_json returns for the           *)
(* workflow.json of each folder under workflows_dir.                       *)
(***************************************************************************)
EmptyMap == [k \in {} |-> ""]

Node(id, intent, actions) ==
    [id |-> id, intent |-> intent, preferred_actions |-> actions]

\* The value None of current_node.
NoneNode == Node("None", "", <<>>)

NormalEdge(id, target) ==
    [id |-> id, type |-> "normal", is_dict |-> FALSE, target |-> target,
     branches |-> EmptyMap, state_key |-> ""]

ConditionalEdge(id, branches, state_key) ==
    [id |-> id, type |-> "condition", is_dict |-> TRUE, target |-> "",
     branches |-> branches, state_key |-> state_key]

Var(type, default) == [type |-> type, default |-> default]

\* gentle -> check -(awake)-> done -> END / escalate (no outgoing edge)
WakeUp ==
    [name |-> "wake_up",
     nodes |-> ("gentle" :> Node("gentle", "wake the user gently", <<"play_recording">>))
            @@ ("check" :> Node("check", "check whether the user is awake", <<>>))
            @@ ("done" :> Node("done", "give the morning briefing",
                               <<"get_dummy_calendar_data">>))
            @@ ("escalate" :> Node("escalate", "wake the user harder",
                                   <<"play_recording", "set_rgb_solid">>)),
     edges |-> ("START" :> NormalEdge("e0", "gentle"))
            @@ ("gentle" :> NormalEdge("e1", "check"))
            @@ ("check" :> ConditionalEdge("e2",
                    ("true" :> "done") @@ ("false" :> "escalate"), "awake"))
            @@ ("done" :> NormalEdge("e3", "END")),
     state_schema |-> ("awake" :> Var("boolean", PyFalse))
                   @@ ("attempts" :> Var("number", PyInt0))]

\* a -> b -(awake)-> a / END / b : a cycle, a conditional edge that can end
\* the run, and a branch ("1") selected by a value that is no boolean
Loop ==
    [name |-> "loop",
     nodes |-> ("a" :> Node("a", "do a", <<>>))
            @@ ("b" :> Node("b", "do b", <<"play_recording">>)),
     edges |-> ("START" :> NormalEdge("e0", "a"))
            @@ ("a" :> NormalEdge("e1", "b"))
            @@ ("b" :> ConditionalEdge("e2",
                    ("true" :> "a") @@ ("false" :> "END") @@ ("1" :> "b"),
                    "awake")),
     state_schema |-> ("awake" :> Var("boolean", PyTrue))]

\* no START edge
NoStart ==
    [name |-> "no_start",
     nodes |-> ("a" :> Node("a", "do a", <<>>)),
     edges |-> ("a" :> NormalEdge("e1", "END")),
     state_schema |-> ("awake" :> Var("boolean", PyFalse))]

\* a conditional edge without a state_key
NoKey ==
    [name |-> "no_key",
     nodes |-> ("a" :> Node("a", "do a", <<>>)),
     edges |-> ("START" :> NormalEdge("e0", "a"))
            @@ ("a" :> ConditionalEdge("e1", ("true" :> "END"), "")),
     state_schema |-> ("awake" :> Var("boolean", PyTrue))]

\* an edge whose target names no node
Dangling ==
    [name |-> "dangling",
     nodes |-> ("a" :> Node("a", "do a", <<>>)),
     edges |-> ("START" :> NormalEdge("e0", "a"))
            @@ ("a" :> NormalEdge("e1", "ghost")),
     state_schema |-> ("awake" :> Var("boolean", PyFalse))]

\* The value None of workflow_graph.
NoneGraph ==
    [name |-> "None", nodes |-> EmptyMap, edges |-> EmptyMap,
     state_schema |-> EmptyMap]

\* The value None of state (an empty dict is EmptyMap).
NoneState == ("None" :> PyNone)

Definitions == {WakeUp, Loop, NoStart, NoKey, Dangling}

\* The names start_workflow is called with; "missing" has no workflow.json
\* and "malformed" has one that json.load rejects.
WorkflowNames == {d.name : d \in Definitions} \cup {"missing", "malformed"}

\* The folder has a workflow.json that loads.
FileExists(workflow_name) == \E d \in Definitions : d.name = workflow_name

\* What open() or json.load(f) raises for the named folder ("" if nothing).
LoadError(workflow_name) ==
    IF workflow_name = "malformed" THEN "JSONDecodeError"
    ELSE IF ~FileExists(workflow_name) THEN "FileNotFoundError"
    ELSE ""

\* Workflow.from_json(json.load(f)) of the named folder.
FromJson(workflow_name) == CHOOSE d \in Definitions : d.name = workflow_name

\* The async functions of the folder's tools.py (only wake_up has one).
ToolsPy(workflow_name) ==
    IF workflow_name = "wake_up" THEN {"get_dummy_calendar_data"} ELSE {}

\* A definition the loader of the specification would accept.
ValidDefinition(g) ==
    /\ "START" \in DOMAIN g.edges
    /\ \A src \in DOMAIN g.edges :
        LET e == g.edges[src] IN
        /\ src \in DOMAIN g.nodes \cup {"START"}
        /\ IF e.type = "normal"
              THEN e.target \in DOMAIN g.nodes \cup {"END"}
              ELSE /\ e.is_dict
                   /\ Truthy(e.state_key)
                   /\ \A k \in DOMAIN e.branches :
                        e.branches[k] \in DOMAIN g.nodes \cup {"END"}
    /\ g.edges["START"].type = "normal"
    /\ g.edges["START"].target \in DOMAIN g.nodes

(***************************************************************************)
(* state_updates: a dict in insertion order, as a sequence of <<key,       *)
(* value>> pairs with distinct keys.  None and {} are both the empty       *)
(* sequence (complete_step tests only the dict's truthiness).              *)
(***************************************************************************)
\* The items a caller passes: any kind of value for "awake" (the key the
\* conditional edges read), a number for "attempts", and a key no schema
\* declares.
Pairs ==
    ({"awake"} \X {PyTrue, PyFalse, PyInt1, PyStrTrue})
        \cup {<<"attempts", PyInt1>>, <<"bogus", PyInt1>>}

RECURSIVE SeqsUpTo(_, _)
SeqsUpTo(S, n) ==
    IF n = 0 THEN {<<>>}
    ELSE LET shorter == SeqsUpTo(S, n - 1) IN
         shorter \cup {Append(q, x) : q \in {r \in shorter : Len(r) = n - 1}, x \in S}

DistinctKeys(q) == \A i, j \in 1..Len(q) : i # j => q[i][1] # q[j][1]

Batches == {q \in SeqsUpTo(Pairs, MaxBatch) : DistinctKeys(q)}

Keys(q) == {q[i][1] : i \in 1..Len(q)}

\* updates[key] of a dict that holds key
ValueOf(q, key) == LET i == CHOOSE i \in 1..Len(q) : q[i][1] = key IN q[i][2]

(***************************************************************************)
(* The fields of the WorkflowService object, and of the agent it holds.    *)
(***************************************************************************)
VARIABLES
    active_workflow,    \* the name passed to start_workflow, or "None"
    state,              \* dict: declared key -> value, or NoneState
    workflow_graph,     \* the Workflow, or NoneGraph
    current_node,       \* the Node the pointer is at, or NoneNode
    workflow_complete,  \* the completion flag
    workflow_tools,     \* the names (keys) of the loaded workflow tools
    agent_instance,     \* whether set_agent has been called
    agent_class_attrs,  \* the tool names set as attributes of the agent class
    agent_tools,        \* the tool names in the agent's _tools list
    call,               \* the last call: [op, workflow_name, state_updates]
    result              \* what the last call returned or raised

service == <<active_workflow, state, workflow_graph, current_node,
             workflow_complete, workflow_tools>>
agent == <<agent_instance, agent_class_attrs, agent_tools>>

(***************************************************************************)
(* The other objects of the repository.  Each specification below runs one *)
(* of them and leaves the variables of the others as they are.             *)
(***************************************************************************)
VARIABLES
    tool_result,        \* main_workflow.py: what the agent tool returned or raised
    tool_call,          \* main_workflow.py: the last tool call: [op, workflow_name, arg]
    previous_run,       \* history: the run the last start_workflow replaced
    written_keys,       \* history: the keys written since the last start_workflow
    current_workflow_task,  \* WorkflowAgent: the id of the task, or NoTask
    tasks,              \* WorkflowAgent: the asyncio tasks it has created
    workflow_state,     \* WorkflowAgent: the state of the last finished run
    wake_state,         \* WakeUpWorkflow: the WakeUpState of the execution
    wake_node,          \* WakeUpWorkflow: the node the graph runs next
    evaluations,        \* history: what each _evaluate_response found
    lamp,               \* the agent's light and movement as the wake-up nodes set them
    routing,            \* WorkflowEngine / WorkflowAgent: an edge selection and its outcome
    replica,            \* a second WorkflowService driven alongside the first
    advances            \* driver: the complete_step calls made in the run

tool == <<tool_result, tool_call>>
history == <<previous_run, written_keys>>
workflow_agent == <<current_workflow_task, tasks, workflow_state>>
wake_up == <<wake_state, wake_node, evaluations, lamp>>
engine == <<routing>>
twin == <<replica>>
driver == <<advances>>

vars == <<service, agent, call, result, tool, history, workflow_agent, wake_up, engine, twin, driver>>

Call(op, workflow_name, state_updates) ==
    [op |-> op, workflow_name |-> workflow_name, state_updates |-> state_updates]

(***************************************************************************)
(* Results.  A method returns None, returns a string, or raises; the       *)
(* strings that describe a step carry the parts the code formats in.       *)
(***************************************************************************)
EmptySnapshot == [k \in {} |-> [value |-> "", type |-> ""]]

Reply(text) ==
    [text |-> text, exc |-> "", prev |-> "", node_id |-> "", intent |-> "",
     actions |-> <<>>, snapshot |-> EmptySnapshot]

Raise(exc) == [Reply("") EXCEPT !.exc = exc]

ReturnsNone == Reply("None")

\* self.state.get(key)
StateGet(st, key) == IF key \in DOMAIN st THEN st[key] ELSE PyNone

\* The step_info string of get_next_step.
StepInfo(node, g, st) ==
    [text |-> "CURRENT STEP", exc |-> "", prev |-> "",
     node_id |-> node.id, intent |-> node.intent,
     actions |-> node.preferred_actions,
     snapshot |-> [key \in DOMAIN g.state_schema |->
                     [value |-> PyStr(StateGet(st, key)),
                      type |-> g.state_schema[key].type]]]

\* The next_step_info string of complete_step.
NextStepInfo(prev_node_id, node) ==
    [text |-> "NEXT STEP", exc |-> "", prev |-> prev_node_id,
     node_id |-> node.id, intent |-> node.intent,
     actions |-> node.preferred_actions, snapshot |-> EmptySnapshot]

(***************************************************************************)
(* start_workflow, stop_workflow and the tools they load and unload.       *)
(***************************************************************************)
\* Mutant: the state keeps what the previous assignment (a copy of the
\* schema) left, so no variable holds its default.
StateDefaults_NoDefault(g) ==
    [key \in DOMAIN g.state_schema |-> PyNone]

\* state = {key: var.default for key, var in state_schema.items()}
StateDefaults(g) ==
    [key \in DOMAIN g.state_schema |-> g.state_schema[key].default]

\* _load_workflow_tools: the tools it registers (none without an agent).
LoadedTools(workflow_name, has_agent) ==
    IF has_agent THEN ToolsPy(workflow_name) ELSE {}

\* Mutant: the tools are forgotten but left on the agent class.
UnloadedAttrs_NoDelattr(attrs, tools, has_agent) == attrs

\* _unload_workflow_tools: the attributes left on the agent class.
UnloadedAttrs(attrs, tools, has_agent) ==
    IF has_agent THEN attrs \ tools ELSE attrs

\* get_available_workflows: the folders that hold a workflow.json.
AvailableWorkflows == {d.name : d \in Definitions}

\* The value None of the argument workflow_names.
NoneNames == <<"None">>

\* The lists preload_workflow_tools is called with.
PreloadArgs == {NoneNames, <<"wake_up">>, <<"missing", "loop">>}

\* preload_workflow_tools: the tools it registers, from every available
\* workflow for None and else from the available ones of the list.
PreloadedTools(workflow_names, has_agent) ==
    LET names == IF workflow_names = NoneNames
                 THEN AvailableWorkflows
                 ELSE {workflow_names[i] : i \in 1..Len(workflow_names)}
                          \cap AvailableWorkflows
    IN  UNION {LoadedTools(workflow_name, has_agent) : workflow_name \in names}

PreloadWorkflowTools(workflow_names) ==
    LET loaded == PreloadedTools(workflow_names, agent_instance) IN
    /\ call' = Call("preload_workflow_tools", "", <<>>)
    /\ workflow_tools' = workflow_tools \cup loaded
    /\ agent_class_attrs' = agent_class_attrs \cup loaded
    /\ agent_tools' = agent_tools \cup loaded
    /\ result' = ReturnsNone
    /\ UNCHANGED <<active_workflow, state, workflow_graph, current_node,
                   workflow_complete, agent_instance>>

SetAgent ==
    /\ call' = Call("set_agent", "", <<>>)
    /\ agent_instance' = TRUE
    /\ result' = ReturnsNone
    /\ UNCHANGED <<service, agent_class_attrs, agent_tools>>

\* Mutant: a start on a service that already holds a state for the same
\* variables keeps that state instead of building it from the defaults.
StartWorkflow_KeepsState(workflow_name) ==
    /\ call' = Call("start_workflow", workflow_name, <<>>)
    /\ IF LoadError(workflow_name) # ""
          THEN /\ result' = Raise(LoadError(workflow_name))
               /\ UNCHANGED <<service, agent>>
          ELSE LET g == FromJson(workflow_name)
                   loaded == LoadedTools(workflow_name, agent_instance)
               IN  /\ workflow_graph' = g
                   /\ active_workflow' = workflow_name
                   /\ state' = IF /\ state # NoneState
                                  /\ DOMAIN state = DOMAIN g.state_schema
                               THEN state
                               ELSE StateDefaults(g)
                   /\ current_node' = NoneNode
                   /\ workflow_complete' = FALSE
                   /\ workflow_tools' = workflow_tools \cup loaded
                   /\ agent_class_attrs' = agent_class_attrs \cup loaded
                   /\ agent_tools' = agent_tools \cup loaded
                   /\ result' = ReturnsNone
                   /\ UNCHANGED agent_instance

\* Mutant: the pointer and the completion flag are reset before the file is
\* opened.
StartWorkflow_ResetsBeforeLoad(workflow_name) ==
    /\ call' = Call("start_workflow", workflow_name, <<>>)
    /\ IF LoadError(workflow_name) # ""
          THEN /\ result' = Raise(LoadError(workflow_name))
               /\ current_node' = NoneNode
               /\ workflow_complete' = FALSE
               /\ UNCHANGED <<active_workflow, state, workflow_graph,
                              workflow_tools, agent>>
          ELSE LET g == FromJson(workflow_name)
                   loaded == LoadedTools(workflow_name, agent_instance)
               IN  /\ workflow_graph' = g
                   /\ active_workflow' = workflow_name
                   /\ state' = StateDefaults(g)
                   /\ current_node' = NoneNode
                   /\ workflow_complete' = FALSE
                   /\ workflow_tools' = workflow_tools \cup loaded
                   /\ agent_class_attrs' = agent_class_attrs \cup loaded
                   /\ agent_tools' = agent_tools \cup loaded
                   /\ result' = ReturnsNone
                   /\ UNCHANGED agent_instance

\* Mutant: start_workflow leaves the pointer and the completion flag of the
\* run it supersedes.
StartWorkflow_KeepsPointer(workflow_name) ==
    /\ call' = Call("start_workflow", workflow_name, <<>>)
    /\ IF LoadError(workflow_name) # ""
          THEN /\ result' = Raise(LoadError(workflow_name))
               /\ UNCHANGED <<service, agent>>
          ELSE LET g == FromJson(workflow_name)
                   loaded == LoadedTools(workflow_name, agent_instance)
               IN  /\ workflow_graph' = g
                   /\ active_workflow' = workflow_name
                   /\ state' = StateDefaults(g)
                   /\ workflow_tools' = workflow_tools \cup loaded
                   /\ agent_class_attrs' = agent_class_attrs \cup loaded
                   /\ agent_tools' = agent_tools \cup loaded
                   /\ result' = ReturnsNone
                   /\ UNCHANGED <<agent_instance, current_node, workflow_complete>>

StartWorkflow(workflow_name) ==
    /\ call' = Call("start_workflow", workflow_name, <<>>)
    /\ IF LoadError(workflow_name) # ""
          THEN \* open() or json.load raises before anything is assigned
               /\ result' = Raise(LoadError(workflow_name))
               /\ UNCHANGED <<service, agent>>
          ELSE LET g == FromJson(workflow_name)
                   loaded == LoadedTools(workflow_name, agent_instance)
               IN  /\ workflow_graph' = g
                   /\ active_workflow' = workflow_name
                   /\ state' = StateDefaults(g)
                   /\ current_node' = NoneNode
                   /\ workflow_complete' = FALSE
                   /\ workflow_tools' = workflow_tools \cup loaded
                   /\ agent_class_attrs' = agent_class_attrs \cup loaded
                   /\ agent_tools' = agent_tools \cup loaded
                   /\ result' = ReturnsNone
                   /\ UNCHANGED agent_instance

\* Mutant: stop_workflow forgets the pointer and the completion flag.
StopWorkflow_KeepsPointer ==
    /\ call' = Call("stop_workflow", "", <<>>)
    /\ IF active_workflow # "None"
          THEN /\ agent_class_attrs' =
                     UnloadedAttrs(agent_class_attrs, workflow_tools, agent_instance)
               /\ workflow_tools' = {}
          ELSE UNCHANGED <<agent_class_attrs, workflow_tools>>
    /\ active_workflow' = "None"
    /\ state' = NoneState
    /\ workflow_graph' = NoneGraph
    /\ result' = ReturnsNone
    /\ UNCHANGED <<current_node, workflow_complete, agent_instance, agent_tools>>

\* Mutant: stop_workflow leaves self.state.
StopWorkflow_KeepsRunState ==
    /\ call' = Call("stop_workflow", "", <<>>)
    /\ IF active_workflow # "None"
          THEN /\ agent_class_attrs' =
                     UnloadedAttrs(agent_class_attrs, workflow_tools, agent_instance)
               /\ workflow_tools' = {}
          ELSE UNCHANGED <<agent_class_attrs, workflow_tools>>
    /\ active_workflow' = "None"
    /\ workflow_graph' = NoneGraph
    /\ current_node' = NoneNode
    /\ workflow_complete' = FALSE
    /\ result' = ReturnsNone
    /\ UNCHANGED <<state, agent_instance, agent_tools>>

StopWorkflow ==
    /\ call' = Call("stop_workflow", "", <<>>)
    /\ IF active_workflow # "None"
          THEN /\ agent_class_attrs' =
                     UnloadedAttrs(agent_class_attrs, workflow_tools, agent_instance)
               /\ workflow_tools' = {}
          ELSE UNCHANGED <<agent_class_attrs, workflow_tools>>
    /\ active_workflow' = "None"
    /\ state' = NoneState
    /\ workflow_graph' = NoneGraph
    /\ current_node' = NoneNode
    /\ workflow_complete' = FALSE
    /\ result' = ReturnsNone
    /\ UNCHANGED <<agent_instance, agent_tools>>

(***************************************************************************)
(* get_next_step                                                           *)
(***************************************************************************)
\* Mutant: the entry node is looked up by the START edge's id, not its target.
StartingNodeId_EdgeId(g) == g.edges["START"].id

\* starting_edge.target
StartingNodeId(g) == g.edges["START"].target

\* Mutant: every call moves the pointer along the current node's normal edge.
PointerForStep_Advancing(g, node) ==
    IF node = NoneNode THEN g.nodes[StartingNodeId(g)]
    ELSE IF /\ node.id \in DOMAIN g.edges
            /\ g.edges[node.id].type = "normal"
            /\ g.edges[node.id].target \in DOMAIN g.nodes
    THEN g.nodes[g.edges[node.id].target]
    ELSE node

\* Mutant: every call resolves the pointer from the START edge again.
PointerForStep_AlwaysStart(g, node) == g.nodes[StartingNodeId(g)]

\* The node the step is built from: the pointer, resolved from the START
\* edge only when it is None.
PointerForStep(g, node) ==
    IF node = NoneNode THEN g.nodes[StartingNodeId(g)] ELSE node

\* Mutant: without a START edge the walk begins at some node of the graph.
get_next_step_GuessesStart(g, node, complete, st) ==
    LET same(r) == [current_node |-> node, result |-> r] IN
    IF g = NoneGraph
    THEN same(Reply("Error: No workflow graph found. Please select a workflow first."))
    ELSE IF complete
    THEN same(Reply("Workflow is complete. There are no more steps."))
    ELSE IF node = NoneNode /\ "START" \notin DOMAIN g.edges
    THEN LET n == g.nodes[CHOOSE id \in DOMAIN g.nodes : TRUE] IN
         [current_node |-> n, result |-> StepInfo(n, g, st)]
    ELSE IF node = NoneNode /\ StartingNodeId(g) \notin DOMAIN g.nodes
    THEN same(Raise("KeyError"))
    ELSE LET n == PointerForStep(g, node) IN
         [current_node |-> n, result |-> StepInfo(n, g, st)]

\* The fields get_next_step leaves and the string it returns (or the
\* exception it raises), from the fields it reads.
get_next_step(g, node, complete, st) ==
    LET same(r) == [current_node |-> node, result |-> r] IN
    IF g = NoneGraph
    THEN same(Reply("Error: No workflow graph found. Please select a workflow first."))
    ELSE IF complete
    THEN same(Reply("Workflow is complete. There are no more steps."))
    ELSE IF node = NoneNode /\ "START" \notin DOMAIN g.edges
    THEN same(Reply("Error: No starting edge found. Please check the workflow graph."))
    ELSE IF node = NoneNode /\ StartingNodeId(g) \notin DOMAIN g.nodes
    THEN same(Raise("KeyError"))
    ELSE LET n == PointerForStep(g, node) IN
         [current_node |-> n, result |-> StepInfo(n, g, st)]

GetNextStep ==
    LET out == get_next_step(workflow_graph, current_node, workflow_complete, state) IN
    /\ call' = Call("get_next_step", "", <<>>)
    /\ current_node' = out.current_node
    /\ result' = out.result
    /\ UNCHANGED <<active_workflow, state, workflow_graph, workflow_complete,
                   workflow_tools, agent>>

(***************************************************************************)
(* complete_step                                                           *)
(***************************************************************************)
\* The loop over state_updates.items(): it writes key by key and returns at
\* the first key that is not in the schema.
RECURSIVE ApplyUpdatesFrom(_, _, _, _)
ApplyUpdatesFrom(st, g, state_updates, i) ==
    IF i > Len(state_updates)
    THEN [state |-> st, error_key |-> ""]
    ELSE LET key == state_updates[i][1]
             value == state_updates[i][2]
         IN  IF key \notin DOMAIN g.state_schema
             THEN [state |-> st, error_key |-> key]
             ELSE ApplyUpdatesFrom(
                      [k \in DOMAIN st \cup {key} |-> IF k = key THEN value ELSE st[k]],
                      g, state_updates, i + 1)

RECURSIVE WriteAllFrom(_, _, _)
WriteAllFrom(st, state_updates, i) ==
    IF i > Len(state_updates) THEN st
    ELSE WriteAllFrom(
             [k \in DOMAIN st \cup {state_updates[i][1]} |->
                 IF k = state_updates[i][1] THEN state_updates[i][2] ELSE st[k]],
             state_updates, i + 1)

\* Mutant: the loop writes every key without looking it up in the schema.
ApplyUpdates_Unchecked(st, g, state_updates) ==
    [state |-> WriteAllFrom(st, state_updates, 1), error_key |-> ""]

\* Mutant: the loop is left after its first item.
ApplyUpdates_FirstOnly(st, g, state_updates) ==
    IF state_updates = <<>> THEN [state |-> st, error_key |-> ""]
    ELSE ApplyUpdatesFrom(st, g, <<state_updates[1]>>, 1)

\* The Python type a declared type tag stands for.
TypeOfTag(type) ==
    IF type = "boolean" THEN "bool"
    ELSE IF type = "number" THEN "int"
    ELSE "str"

\* Mutant: a value whose Python type is not the one of the variable's
\* declared type tag is rejected like an undeclared key.
ApplyUpdates_TypeChecked(st, g, state_updates) ==
    LET bad == {i \in 1..Len(state_updates) :
                  /\ state_updates[i][1] \in DOMAIN g.state_schema
                  /\ state_updates[i][2].t #
                        TypeOfTag(g.state_schema[state_updates[i][1]].type)}
    IN  IF bad = {} THEN ApplyUpdatesFrom(st, g, state_updates, 1)
        ELSE [state |-> st,
              error_key |-> state_updates[CHOOSE i \in bad : TRUE][1]]

ApplyUpdates(st, g, state_updates) == ApplyUpdatesFrom(st, g, state_updates, 1)

\* Mutant: the key is str(state_value) for booleans too ("True", "False").
TargetKey_Str(state_value) == PyStr(state_value)

\* Mutant: the key is the value's truthiness (1 selects "true").
TargetKey_Truthiness(state_value) ==
    IF state_value \in {PyFalse, PyNone, PyInt0} THEN "false" ELSE "true"

\* The key of a conditional edge's target dict selected by a state value.
TargetKey(state_value) ==
    IF state_value = PyTrue THEN "true"
    ELSE IF state_value = PyFalse THEN "false"
    ELSE PyStr(state_value)

Resolved(target) == [exc |-> "", target |-> target]
ResolveFails(exc) == [exc |-> exc, target |-> ""]

\* Mutant: a normal edge resolves to the edge's id instead of its target.
ResolveEdgeTarget_NormalById(edge, st) ==
    IF edge.type = "normal" THEN Resolved(edge.id)
    ELSE IF ~edge.is_dict
    THEN ResolveFails("ValueError: target must be a dict")
    ELSE IF ~Truthy(edge.state_key)
    THEN ResolveFails("ValueError: missing state_key")
    ELSE LET target_key == TargetKey(StateGet(st, edge.state_key)) IN
         IF target_key \notin DOMAIN edge.branches
         THEN ResolveFails("ValueError: not in targets")
         ELSE Resolved(edge.branches[target_key])

\* Mutant: a key that is no branch falls through to the "false" branch, or
\* to END when there is none.
ResolveEdgeTarget_DefaultBranch(edge, st) ==
    IF edge.type = "normal" THEN Resolved(edge.target)
    ELSE IF ~edge.is_dict
    THEN ResolveFails("ValueError: target must be a dict")
    ELSE IF ~Truthy(edge.state_key)
    THEN ResolveFails("ValueError: missing state_key")
    ELSE LET target_key == TargetKey(StateGet(st, edge.state_key)) IN
         IF target_key \in DOMAIN edge.branches
         THEN Resolved(edge.branches[target_key])
         ELSE IF "false" \in DOMAIN edge.branches
         THEN Resolved(edge.branches["false"])
         ELSE Resolved("END")

\* Mutant: without a state_key the branch is "true" when any state variable
\* is True, else "false".
ResolveEdgeTarget_ScansState(edge, st) ==
    IF edge.type = "normal" THEN Resolved(edge.target)
    ELSE IF ~edge.is_dict
    THEN ResolveFails("ValueError: target must be a dict")
    ELSE LET target_key ==
                 IF Truthy(edge.state_key)
                 THEN TargetKey(StateGet(st, edge.state_key))
                 ELSE IF \E k \in DOMAIN st : st[k] = PyTrue THEN "true" ELSE "false"
         IN
         IF target_key \notin DOMAIN edge.branches
         THEN ResolveFails("ValueError: not in targets")
         ELSE Resolved(edge.branches[target_key])

\* Mutant: once an attempt has been counted the branch is "true", whatever
\* the edge's own variable holds.
ResolveEdgeTarget_ReadsAttempts(edge, st) ==
    IF edge.type = "normal" THEN Resolved(edge.target)
    ELSE IF ~edge.is_dict
    THEN ResolveFails("ValueError: target must be a dict")
    ELSE IF ~Truthy(edge.state_key)
    THEN ResolveFails("ValueError: missing state_key")
    ELSE LET target_key ==
                 IF StateGet(st, "attempts") = PyInt1 THEN "true"
                 ELSE TargetKey(StateGet(st, edge.state_key))
         IN
         IF target_key \notin DOMAIN edge.branches
         THEN ResolveFails("ValueError: not in targets")
         ELSE Resolved(edge.branches[target_key])

\* _resolve_edge_target
ResolveEdgeTarget(edge, st) ==
    IF edge.type = "normal" THEN Resolved(edge.target)
    ELSE IF ~edge.is_dict
    THEN ResolveFails("ValueError: target must be a dict")
    ELSE IF ~Truthy(edge.state_key)
    THEN ResolveFails("ValueError: missing state_key")
    ELSE LET target_key == TargetKey(StateGet(st, edge.state_key)) IN
         IF target_key \notin DOMAIN edge.branches
         THEN ResolveFails("ValueError: not in targets")
         ELSE Resolved(edge.branches[target_key])

\* Mutant: END is looked up like any node id.
IsEnd_Never(next_node_id) == FALSE

\* next_node_id == "END"
IsEnd(next_node_id) == next_node_id = "END"

\* Mutant: the completion flag is not tested before the step is completed.
EarlyReturn_NoCompleteCheck(g, node, complete) ==
    IF g = NoneGraph THEN "Error: No active workflow"
    ELSE IF node = NoneNode THEN "Error: No current node"
    ELSE ""

\* Mutant: the pointer is not tested before the step is completed.
EarlyReturn_NoNodeCheck(g, node, complete) ==
    IF g = NoneGraph THEN "Error: No active workflow"
    ELSE IF complete THEN "Workflow already complete"
    ELSE ""

\* Mutant: a completed run is reported like a missing one.
EarlyReturn_CompleteIsError(g, node, complete) ==
    IF g = NoneGraph THEN "Error: No active workflow"
    ELSE IF node = NoneNode THEN "Error: No current node"
    ELSE IF complete THEN "Error: No active workflow"
    ELSE ""

\* The three guards complete_step returns at before it touches anything
\* ("" when it goes on).
EarlyReturn(g, node, complete) ==
    IF g = NoneGraph THEN "Error: No active workflow"
    ELSE IF node = NoneNode THEN "Error: No current node"
    ELSE IF complete THEN "Workflow already complete"
    ELSE ""

\* Mutant: state is the schema's own dict (the copy of line 85 kept), so a
\* written value replaces the variable's declaration in the definition.
GraphAfterUpdates_Aliased(g, st) ==
    [g EXCEPT !.state_schema =
        [key \in DOMAIN g.state_schema |->
            [g.state_schema[key] EXCEPT !.default = StateGet(st, key)]]]

\* The Workflow after the writes of complete_step: self.state[key] = value
\* writes the dict built in start_workflow, never the Workflow.
GraphAfterUpdates(g, st) == g

\* Mutant: the edge's variable is taken out of the state when it is read
\* (pop instead of get).
StateAfterResolve_Consumes(edge, st) ==
    IF edge.type = "condition" /\ edge.is_dict /\ edge.state_key \in DOMAIN st
    THEN [key \in DOMAIN st \ {edge.state_key} |-> st[key]]
    ELSE st

\* self.state after _resolve_edge_target: it only reads the state
\* (self.state.get), on every path.
StateAfterResolve(edge, st) == st

\* Mutant: the pointer is cleared before the edge is resolved, so a failed
\* resolution leaves no current node.
ResolveFailure_DropsPointer(out, exc) ==
    [out EXCEPT !.result = Raise(exc), !.current_node = NoneNode]

\* _resolve_edge_target raises inside complete_step: the fields stay as they
\* are at that point.
ResolveFailure(out, exc) == [out EXCEPT !.result = Raise(exc)]

\* Mutant: a node without outgoing edge is an error and does not complete
\* the run.
complete_step_NoEdgeIsError(g, node, complete, st, state_updates) ==
    LET same(r) == [state |-> st, current_node |-> node,
                    workflow_complete |-> complete, unload |-> FALSE, result |-> r]
    IN
    IF EarlyReturn(g, node, complete) # ""
    THEN same(Reply(EarlyReturn(g, node, complete)))
    ELSE
    LET applied == ApplyUpdates(st, g, state_updates)
        after(r) == [same(r) EXCEPT !.state = applied.state]
        completes(r) == [after(r) EXCEPT !.workflow_complete = TRUE, !.unload = TRUE]
    IN
    IF applied.error_key # ""
    THEN after(Reply("Error: State variable not found in workflow schema"))
    ELSE IF node.id \notin DOMAIN g.edges
    THEN after(Reply("Error: No outgoing edge"))
    ELSE
    LET resolved == ResolveEdgeTarget(g.edges[node.id], applied.state)
        left == StateAfterResolve(g.edges[node.id], applied.state)
        read(out) == [out EXCEPT !.state = left]
    IN
    IF resolved.exc # "" THEN read(ResolveFailure(after(ReturnsNone), resolved.exc))
    ELSE IF IsEnd(resolved.target)
    THEN read(completes(Reply("Workflow complete! Reached END state.")))
    ELSE IF resolved.target \notin DOMAIN g.nodes
    THEN read(after(Raise("KeyError")))
    ELSE [read(after(NextStepInfo(node.id, g.nodes[resolved.target])))
            EXCEPT !.current_node = g.nodes[resolved.target]]

\* The fields complete_step leaves, whether it unloads the workflow's tools,
\* and the string it returns (or the exception it raises).
complete_step(g, node, complete, st, state_updates) ==
    LET same(r) == [state |-> st, current_node |-> node,
                    workflow_complete |-> complete, unload |-> FALSE, result |-> r]
    IN
    IF EarlyReturn(g, node, complete) # ""
    THEN same(Reply(EarlyReturn(g, node, complete)))
    ELSE
    LET applied == ApplyUpdates(st, g, state_updates)
        after(r) == [same(r) EXCEPT !.state = applied.state]
        completes(r) == [after(r) EXCEPT !.workflow_complete = TRUE, !.unload = TRUE]
    IN
    IF applied.error_key # ""
    THEN after(Reply("Error: State variable not found in workflow schema"))
    ELSE IF node.id \notin DOMAIN g.edges
    THEN completes(Reply("Workflow complete! No more steps."))
    ELSE
    LET resolved == ResolveEdgeTarget(g.edges[node.id], applied.state)
        left == StateAfterResolve(g.edges[node.id], applied.state)
        read(out) == [out EXCEPT !.state = left]
    IN
    IF resolved.exc # "" THEN read(ResolveFailure(after(ReturnsNone), resolved.exc))
    ELSE IF IsEnd(resolved.target)
    THEN read(completes(Reply("Workflow complete! Reached END state.")))
    ELSE IF resolved.target \notin DOMAIN g.nodes
    THEN read(after(Raise("KeyError")))
    ELSE [read(after(NextStepInfo(node.id, g.nodes[resolved.target])))
            EXCEPT !.current_node = g.nodes[resolved.target]]

CompleteStep(state_updates) ==
    LET out == complete_step(workflow_graph, current_node, workflow_complete,
                             state, state_updates)
    IN
    /\ call' = Call("complete_step", "", state_updates)
    /\ state' = out.state
    /\ current_node' = out.current_node
    /\ workflow_complete' = out.workflow_complete
    /\ IF out.unload
          THEN /\ agent_class_attrs' =
                     UnloadedAttrs(agent_class_attrs, workflow_tools, agent_instance)
               /\ workflow_tools' = {}
          ELSE UNCHANGED <<agent_class_attrs, workflow_tools>>
    /\ result' = out.result
    /\ workflow_graph' = GraphAfterUpdates(workflow_graph, out.state)
    /\ UNCHANGED <<active_workflow, agent_instance, agent_tools>>

(***************************************************************************)
(* The values the variables of the other objects have before those objects *)
(* are constructed or used.                                                *)
(***************************************************************************)
\* Largest number of tasks a WorkflowAgent creates.
MaxTasks == 2

TaskIds == 1..MaxTasks

\* The value None of current_workflow_task.
NoTask == 0

\* A context dict: key -> truth value ({} when initial_context is None).
EmptyContext == [k \in {} |-> FALSE]

\* The value None of workflow_state (a run's own state starts at
\* current_node_id "").
NoneWorkflowState ==
    [current_node_id |-> "None", user_response_detected |-> FALSE,
     context |-> EmptyContext, history |-> <<>>]

\* A task id for which asyncio.create_task has not been called.
NoCoroutine ==
    [status |-> "none", must_cancel |-> FALSE, workflow_id |-> "",
     state |-> NoneWorkflowState, current_node_id |-> "", iteration |-> 0,
     outcome |-> ""]

\* No WakeUpState: execute() has not been called.
NoneLamp == [rgb |-> "None", recording |-> "None"]

NoneWakeState ==
    [attempt_count |-> 0, user_awake |-> FALSE, workflow_path |-> <<"None">>,
     context |-> EmptyContext]

\* No run has been replaced yet.
NoPreviousRun == [state |-> NoneState, node_id |-> "None"]

\* The argument of a tool: None, a dict (its items) or a str (its JSON
\* tokens).
ArgNone == [kind |-> "None", items |-> <<>>, text |-> <<>>]

ArgDict(q) == [kind |-> "dict", items |-> q, text |-> <<>>]

ArgStr(text) == [kind |-> "str", items |-> <<>>, text |-> text]

ToolCall(op, workflow_name, arg) ==
    [op |-> op, workflow_name |-> workflow_name, arg |-> arg]

ToolIdle ==
    /\ tool_result = ReturnsNone
    /\ tool_call = ToolCall("None", "", ArgNone)

HistoryIdle ==
    /\ previous_run = NoPreviousRun
    /\ written_keys = {}

WorkflowAgentIdle ==
    /\ current_workflow_task = NoTask
    /\ tasks = [t \in TaskIds |-> NoCoroutine]
    /\ workflow_state = NoneWorkflowState

WakeUpIdle ==
    /\ wake_state = NoneWakeState
    /\ wake_node = "None"
    /\ evaluations = <<>>
    /\ lamp = NoneLamp

\* No edge selection has been made.
NoRouting ==
    [edges |-> <<>>, end_nodes |-> {}, user_response_detected |-> FALSE,
     route |-> "None", evaluated |-> "None"]

EngineIdle == routing = NoRouting

\* What a WorkflowService holds of a run, with its last call and result.
Instance(name, st, g, node, complete, c, r) ==
    [active_workflow |-> name, state |-> st, workflow_graph |-> g,
     current_node |-> node, workflow_complete |-> complete,
     call |-> c, result |-> r]

\* WorkflowService.__init__ of the second service.
NoReplica ==
    Instance("None", NoneState, NoneGraph, NoneNode, FALSE,
             Call("__init__", "", <<>>), ReturnsNone)

TwinIdle == replica = NoReplica

DriverIdle == advances = 0

(***************************************************************************)
(* The specification: a WorkflowService after __init__, and any sequence   *)
(* of calls of its methods.                                                *)
(***************************************************************************)
ServiceInit ==
    /\ active_workflow = "None"
    /\ state = NoneState
    /\ workflow_graph = NoneGraph
    /\ current_node = NoneNode
    /\ workflow_complete = FALSE
    /\ workflow_tools = {}
    /\ agent_instance = FALSE
    /\ agent_class_attrs = {}
    /\ agent_tools = {}
    /\ call = Call("__init__", "", <<>>)
    /\ result = ReturnsNone

Init ==
    /\ ServiceInit
    /\ ToolIdle
    /\ HistoryIdle
    /\ TwinIdle
    /\ DriverIdle
    /\ EngineIdle
    /\ WorkflowAgentIdle
    /\ WakeUpIdle

Next ==
    \/ SetAgent /\ UNCHANGED <<tool, history, workflow_agent, wake_up, engine, twin, driver>>
    \/ \E workflow_names \in PreloadArgs :
          PreloadWorkflowTools(workflow_names)
              /\ UNCHANGED <<tool, history, workflow_agent, wake_up, engine, twin, driver>>
    \/ \E workflow_name \in WorkflowNames :
          StartWorkflow(workflow_name)
              /\ UNCHANGED <<tool, history, workflow_agent, wake_up, engine, twin, driver>>
    \/ StopWorkflow /\ UNCHANGED <<tool, history, workflow_agent, wake_up, engine, twin, driver>>
    \/ GetNextStep /\ UNCHANGED <<tool, history, workflow_agent, wake_up, engine, twin, driver>>
    \/ \E state_updates \in Batches :
          CompleteStep(state_updates)
              /\ UNCHANGED <<tool, history, workflow_agent, wake_up, engine, twin, driver>>

Spec == Init /\ [][Next]_vars

(***************************************************************************)
(* The walker's status and the kinds of result, read off the fields and    *)
(* the returned strings.                                                   *)
(***************************************************************************)
StatusOf(g, node, complete) ==
    IF g = NoneGraph THEN "NoRun"
    ELSE IF complete THEN "Complete"
    ELSE IF node = NoneNode THEN "NotStarted"
    ELSE "AwaitingStep"

Status == StatusOf(workflow_graph, current_node, workflow_complete)

IsStepView(r) == r.text \in {"CURRENT STEP", "NEXT STEP"}

IsCompletionMarker(r) ==
    r.text \in {"Workflow is complete. There are no more steps.",
                "Workflow complete! No more steps.",
                "Workflow complete! Reached END state.",
                "Workflow already complete"}

IsUnknownVariableError(r) ==
    r.text = "Error: State variable not found in workflow schema"

IsError(r) ==
    \/ r.exc # ""
    \/ IsUnknownVariableError(r)
    \/ r.text \in {"Error: No workflow graph found. Please select a workflow first.",
                   "Error: No starting edge found. Please check the workflow graph.",
                   "Error: No active workflow",
                   "Error: No current node"}

\* Every key of the batch is declared in the schema of g.
AllDeclared(state_updates, g) == Keys(state_updates) \subseteq DOMAIN g.state_schema

\* A complete_step call made while a step is awaited.
AdvanceFromStep ==
    /\ call'.op = "complete_step"
    /\ StatusOf(workflow_graph, current_node, workflow_complete) = "AwaitingStep"

(***************************************************************************)
(* Claims                                                                  *)
(***************************************************************************)

\* C1: for every valid definition, the first get_next_step after
\* start_workflow sets the pointer to the node named by the START edge's
\* target and returns a step view of that node.
C1_FirstStepIsStartTarget ==
    [][(/\ call'.op = "get_next_step"
        /\ Status = "NotStarted"
        /\ ValidDefinition(workflow_graph))
       => LET target == workflow_graph.edges["START"].target IN
          /\ current_node' = workflow_graph.nodes[target]
          /\ IsStepView(result')
          /\ result'.node_id = target
          /\ result'.intent = workflow_graph.nodes[target].intent]_vars

C1_Witness ==
    /\ call.op = "get_next_step"
    /\ workflow_graph = WakeUp
    /\ current_node = WakeUp.nodes["gentle"]
    /\ result.text = "CURRENT STEP"
    /\ result.node_id = "gentle"

\* The value the variable "awake" has when the edge is resolved: the one in
\* the batch if the batch holds the key, else the one the state already had.
AwakeAtResolution ==
    IF "awake" \in Keys(call'.state_updates)
    THEN ValueOf(call'.state_updates, "awake")
    ELSE state["awake"]

\* C2: at a node whose conditional edge reads "awake", a complete_step whose
\* keys are declared moves the pointer to the "true" branch's node when awake
\* is True after the batch is applied and to the "false" branch's node when it
\* is False; without "awake" in the batch the value already in the state
\* decides.
C2_ConditionalRouting ==
    [][(/\ AdvanceFromStep
        /\ AllDeclared(call'.state_updates, workflow_graph)
        /\ current_node.id \in DOMAIN workflow_graph.edges
        /\ workflow_graph.edges[current_node.id].type = "condition"
        /\ workflow_graph.edges[current_node.id].state_key = "awake")
       => LET branches == workflow_graph.edges[current_node.id].branches IN
          \A key \in {"true", "false"} :
             (/\ AwakeAtResolution = (IF key = "true" THEN PyTrue ELSE PyFalse)
              /\ key \in DOMAIN branches
              /\ branches[key] \in DOMAIN workflow_graph.nodes)
             => /\ current_node' = workflow_graph.nodes[branches[key]]
                /\ IsStepView(result')
                /\ result'.node_id = branches[key]]_vars

C2_Witness ==
    /\ call.op = "complete_step"
    /\ call.state_updates = <<>>
    /\ workflow_graph = WakeUp
    /\ state["awake"] = WakeUp.state_schema["awake"].default
    /\ result.prev = "check"
    /\ current_node.id = "escalate"

\* C3 as stated: at a node with a normal edge to node B, complete_step moves
\* the pointer to B whatever the updates are.
C3_Original ==
    [][(/\ AdvanceFromStep
        /\ current_node.id \in DOMAIN workflow_graph.edges
        /\ workflow_graph.edges[current_node.id].type = "normal"
        /\ workflow_graph.edges[current_node.id].target \in DOMAIN workflow_graph.nodes)
       => current_node'.id = workflow_graph.edges[current_node.id].target]_vars

\* C3 amended: at a node with a normal edge to node B, complete_step moves
\* the pointer to B for every batch whose keys are all declared, whatever
\* values it holds.
C3_NormalEdgeMoves ==
    [][(/\ AdvanceFromStep
        /\ AllDeclared(call'.state_updates, workflow_graph)
        /\ current_node.id \in DOMAIN workflow_graph.edges
        /\ workflow_graph.edges[current_node.id].type = "normal"
        /\ workflow_graph.edges[current_node.id].target \in DOMAIN workflow_graph.nodes)
       => /\ current_node'.id = workflow_graph.edges[current_node.id].target
          /\ IsStepView(result')]_vars

C3_Witness ==
    /\ call.op = "complete_step"
    /\ call.state_updates = <<<<"awake", PyInt1>>, <<"attempts", PyInt1>>>>
    /\ workflow_graph = WakeUp
    /\ result.prev = "gentle"
    /\ current_node.id = "check"

\* The current node has no outgoing edge, or its edge resolves to END in the
\* state the call leaves.
EndsRun ==
    \/ current_node.id \notin DOMAIN workflow_graph.edges
    \/ LET edge == workflow_graph.edges[current_node.id] IN
       \/ edge.type = "normal" /\ edge.target = "END"
       \/ /\ edge.type = "condition"
          /\ edge.is_dict
          /\ edge.state_key # ""
          /\ TargetKey(StateGet(state', edge.state_key)) \in DOMAIN edge.branches
          /\ edge.branches[TargetKey(StateGet(state', edge.state_key))] = "END"

\* C4: a complete_step whose updates are accepted, made at a node with no
\* outgoing edge or whose edge resolves to END, sets the completion flag and
\* returns a completion marker; every other such call leaves the status
\* AwaitingStep.
C4_CompletionOnlyAtEnd ==
    [][(AdvanceFromStep /\ AllDeclared(call'.state_updates, workflow_graph))
       => IF EndsRun
          THEN /\ workflow_complete'
               /\ IsCompletionMarker(result')
          ELSE /\ ~workflow_complete'
               /\ current_node' # NoneNode
               /\ ~IsCompletionMarker(result')]_vars

C4_Witness ==
    /\ call.op = "complete_step"
    /\ workflow_graph = Loop
    /\ current_node.id = "b"
    /\ state["awake"] = PyFalse
    /\ workflow_complete
    /\ result.text = "Workflow complete! Reached END state."

\* C5: once the completion flag is set, every get_next_step and every
\* complete_step (whatever its updates) returns a completion marker, not an
\* error, and the flag stays set.
C5_CompleteStaysComplete ==
    [][(workflow_complete /\ call'.op \in {"get_next_step", "complete_step"})
       => /\ IsCompletionMarker(result')
          /\ ~IsError(result')
          /\ workflow_complete']_vars

C5_Witness ==
    /\ workflow_complete
    /\ call.op = "complete_step"
    /\ "bogus" \in Keys(call.state_updates)
    /\ result.text = "Workflow already complete"

\* C6 as stated: a complete_step whose batch holds an undeclared key fails
\* with the unknown-variable error and leaves the state as it was.
C6_Original ==
    [][(AdvanceFromStep /\ ~AllDeclared(call'.state_updates, workflow_graph))
       => /\ IsUnknownVariableError(result')
          /\ state' = state]_vars

\* C7: while a workflow is installed, the keys of the state are keys of its
\* state schema.
C7_StateKeysDeclared ==
    workflow_graph # NoneGraph
        => /\ state # NoneState
           /\ DOMAIN state \subseteq DOMAIN workflow_graph.state_schema

C7_Witness ==
    /\ call.op = "complete_step"
    /\ "bogus" \in Keys(call.state_updates)
    /\ IsUnknownVariableError(result)
    /\ DOMAIN state = {"awake", "attempts"}

\* C8: a start_workflow that succeeds leaves the named definition installed,
\* every declared variable at its schema default, the pointer None and the
\* completion flag cleared, whatever the fields held before.
C8_StartResets ==
    [][(call'.op = "start_workflow" /\ result'.exc = "")
       => LET g == FromJson(call'.workflow_name) IN
          /\ workflow_graph' = g
          /\ active_workflow' = call'.workflow_name
          /\ DOMAIN state' = DOMAIN g.state_schema
          /\ \A key \in DOMAIN g.state_schema :
                state'[key] = g.state_schema[key].default
          /\ current_node' = NoneNode
          /\ ~workflow_complete'
          /\ StatusOf(workflow_graph', current_node', workflow_complete')
                = "NotStarted"]_vars

\* A start of "loop" that superseded a run of "wake_up" (whose tools are
\* still registered).
C8_Witness ==
    /\ call.op = "start_workflow"
    /\ workflow_graph = Loop
    /\ "get_dummy_calendar_data" \in workflow_tools
    /\ state = ("awake" :> PyTrue)
    /\ current_node = NoneNode
    /\ ~workflow_complete

\* C9: a get_next_step that directly follows a get_next_step returns the
\* same result and changes neither the pointer nor the state.
C9_GetNextStepIdempotent ==
    [][(call.op = "get_next_step" /\ call'.op = "get_next_step")
       => /\ result' = result
          /\ current_node' = current_node
          /\ state' = state]_vars

C9_Witness ==
    /\ call.op = "get_next_step"
    /\ IsStepView(result)
    /\ result.node_id = current_node.id
    /\ current_node.id = "check"

\* C10: the pointer stays None from start_workflow until a get_next_step; it
\* changes only in start_workflow, stop_workflow, the get_next_step that
\* resolves it from None, or a complete_step that returns the next step; and
\* once the completion flag is set no get_next_step or complete_step changes
\* the pointer or the state.
C10_PointerFrame ==
    [][/\ (current_node' # current_node)
            => \/ call'.op \in {"start_workflow", "stop_workflow"}
               \/ call'.op = "get_next_step" /\ current_node = NoneNode
               \/ call'.op = "complete_step" /\ IsStepView(result')
       /\ (call'.op = "start_workflow" /\ result'.exc = "")
            => current_node' = NoneNode
       /\ (Status = "NotStarted" /\ call'.op \in {"complete_step", "set_agent"})
            => current_node' = NoneNode
       /\ (workflow_complete /\ call'.op \in {"get_next_step", "complete_step"})
            => /\ current_node' = current_node
               /\ state' = state]_vars

C10_Witness ==
    /\ workflow_complete
    /\ call.op = "get_next_step"
    /\ current_node.id = "escalate"
    /\ state["attempts"] = PyInt1

(***************************************************************************)
(* The error classes of the returned strings and raised exceptions.        *)
(***************************************************************************)
IsInvalidCallError(r) ==
    r.text \in {"Error: No workflow graph found. Please select a workflow first.",
                "Error: No active workflow",
                "Error: No current node"}

IsGraphError(r) ==
    \/ r.text = "Error: No starting edge found. Please check the workflow graph."
    \/ r.exc \in {"ValueError: missing state_key", "ValueError: target must be a dict"}

IsBranchNotFoundError(r) == r.exc = "ValueError: not in targets"

\* The branch key a value selects: "true"/"false" for a boolean, else the
\* value's string form.
BranchKey(v) ==
    IF v.t = "bool" THEN (IF v = PyTrue THEN "true" ELSE "false") ELSE v.s

\* A complete_step, with declared keys, made at a node whose outgoing edge is
\* a conditional edge with a target dict and a state_key.
AdvanceOverConditional ==
    /\ AdvanceFromStep
    /\ AllDeclared(call'.state_updates, workflow_graph)
    /\ current_node.id \in DOMAIN workflow_graph.edges
    /\ workflow_graph.edges[current_node.id].type = "condition"
    /\ workflow_graph.edges[current_node.id].is_dict
    /\ workflow_graph.edges[current_node.id].state_key # ""

\* The branch key of the value the edge's variable has after the call.
BranchKeyAfter ==
    BranchKey(StateGet(state', workflow_graph.edges[current_node.id].state_key))

\* C11: when the branch key of a conditional edge is no key of its target
\* dict, complete_step fails with the branch-not-found error; the pointer
\* stays where it is and the run is not completed.
C11_MissingBranchFails ==
    [][(/\ AdvanceOverConditional
        /\ BranchKeyAfter \notin DOMAIN workflow_graph.edges[current_node.id].branches)
       => /\ IsBranchNotFoundError(result')
          /\ current_node' = current_node
          /\ ~workflow_complete']_vars

C11_Witness ==
    /\ call.op = "complete_step"
    /\ workflow_graph = WakeUp
    /\ current_node.id = "check"
    /\ state["awake"] = PyInt1
    /\ IsBranchNotFoundError(result)
    /\ ~workflow_complete

\* C12: the branch of a conditional edge is the entry of its target dict for
\* the branch key of the variable's value ("true"/"false" for a boolean, the
\* string form for a number or a string): when that key is in the dict,
\* complete_step goes to exactly that entry (a node, or END).
C12_BranchKeySelectsEntry ==
    [][(/\ AdvanceOverConditional
        /\ BranchKeyAfter \in DOMAIN workflow_graph.edges[current_node.id].branches)
       => LET entry == workflow_graph.edges[current_node.id].branches[BranchKeyAfter] IN
          /\ entry = "END" => (workflow_complete' /\ current_node' = current_node)
          /\ entry \in DOMAIN workflow_graph.nodes
                => /\ current_node' = workflow_graph.nodes[entry]
                   /\ ~workflow_complete'
                   /\ result'.node_id = entry]_vars

\* The number 1 selects the branch "1" (not "true").
C12_Witness ==
    /\ call.op = "complete_step"
    /\ workflow_graph = Loop
    /\ state["awake"] = PyInt1
    /\ result.prev = "b"
    /\ current_node.id = "b"
    /\ IsStepView(result)

\* C13: stop_workflow leaves no run (no definition, state, pointer or
\* completion flag), and while there is no run get_next_step and
\* complete_step return an invalid-call error and change no field.
C13_StopDiscardsRun ==
    [][/\ (call'.op = "stop_workflow")
            => /\ active_workflow' = "None"
               /\ workflow_graph' = NoneGraph
               /\ state' = NoneState
               /\ current_node' = NoneNode
               /\ ~workflow_complete'
       /\ (Status = "NoRun" /\ call'.op \in {"get_next_step", "complete_step"})
            => /\ IsInvalidCallError(result')
               /\ UNCHANGED service]_vars

\* A complete_step after the stop of a run (the tools of wake_up were loaded
\* and are unloaded again).
C13_Witness ==
    /\ call.op = "complete_step"
    /\ call.state_updates # <<>>
    /\ workflow_graph = NoneGraph
    /\ state = NoneState
    /\ current_node = NoneNode
    /\ "get_dummy_calendar_data" \in agent_tools
    /\ workflow_tools = {}
    /\ result.text = "Error: No active workflow"

\* C14: a complete_step made after start_workflow and before any
\* get_next_step fails with an invalid-call error, writes none of its
\* updates and leaves the pointer None and the status NotStarted.
C14_AdvanceBeforeFirstStep ==
    [][(Status = "NotStarted" /\ call'.op = "complete_step")
       => /\ IsInvalidCallError(result')
          /\ state' = state
          /\ current_node' = NoneNode
          /\ ~workflow_complete'
          /\ workflow_graph' = workflow_graph]_vars

C14_Witness ==
    /\ call.op = "complete_step"
    /\ call.state_updates = <<<<"awake", PyTrue>>>>
    /\ workflow_graph = WakeUp
    /\ current_node = NoneNode
    /\ state["awake"] = PyFalse
    /\ result.text = "Error: No current node"

\* C15 as stated: a complete_step made when the completion flag is set is
\* rejected with an invalid-call error.
C15_Original ==
    [][(workflow_complete /\ call'.op = "complete_step")
       => IsInvalidCallError(result')]_vars

\* C15 amended: a complete_step made when the completion flag is set is
\* refused without effect (no update is written, the pointer, the flag and
\* the registered tools stay as they are) and returns the string "Workflow
\* already complete", which is a completion marker and no error.
C15_AdvanceAfterCompleteRefused ==
    [][(workflow_complete /\ call'.op = "complete_step")
       => /\ result'.text = "Workflow already complete"
          /\ ~IsInvalidCallError(result')
          /\ UNCHANGED <<service, agent>>]_vars

C15_Witness ==
    /\ workflow_complete
    /\ call.op = "complete_step"
    /\ call.state_updates = <<<<"awake", PyFalse>>>>
    /\ state["awake"] = PyTrue
    /\ current_node.id = "done"
    /\ result.text = "Workflow already complete"

\* C16: get_next_step and complete_step change the status only from
\* NotStarted to AwaitingStep (get_next_step) and from AwaitingStep to
\* Complete (complete_step); Complete is left by neither, and NotStarted
\* never becomes Complete.
C16_StatusTransitions ==
    [][(call'.op \in {"get_next_step", "complete_step"})
       => LET before == Status
              after == StatusOf(workflow_graph', current_node', workflow_complete')
          IN  \/ after = before
              \/ /\ before = "NotStarted"
                 /\ after = "AwaitingStep"
                 /\ call'.op = "get_next_step"
              \/ /\ before = "AwaitingStep"
                 /\ after = "Complete"
                 /\ call'.op = "complete_step"]_vars

\* A get_next_step made in status Complete, which stays Complete.
C16_Witness ==
    /\ call.op = "get_next_step"
    /\ Status = "Complete"
    /\ workflow_graph = Loop
    /\ result.text = "Workflow is complete. There are no more steps."

\* C17: on a definition without a START edge, get_next_step in status
\* NotStarted fails with the graph error and leaves the pointer None and the
\* status NotStarted.
C17_NoStartEdgeFails ==
    [][(/\ call'.op = "get_next_step"
        /\ Status = "NotStarted"
        /\ "START" \notin DOMAIN workflow_graph.edges)
       => /\ result'.text = "Error: No starting edge found. Please check the workflow graph."
          /\ IsGraphError(result')
          /\ current_node' = NoneNode
          /\ StatusOf(workflow_graph', current_node', workflow_complete') = "NotStarted"
          /\ state' = state]_vars

\* The failed call on the definition without a START edge; it changed no
\* field, so a repeated call starts from the same fields.
C17_Witness ==
    /\ call.op = "get_next_step"
    /\ workflow_graph = NoStart
    /\ current_node = NoneNode
    /\ ~workflow_complete
    /\ IsGraphError(result)

\* C18: at a node whose conditional edge has no state_key, complete_step
\* fails with the graph error whatever the state holds: the pointer stays and
\* the run is not completed.
C18_MissingStateKeyFails ==
    [][(/\ AdvanceFromStep
        /\ AllDeclared(call'.state_updates, workflow_graph)
        /\ current_node.id \in DOMAIN workflow_graph.edges
        /\ workflow_graph.edges[current_node.id].type = "condition"
        /\ workflow_graph.edges[current_node.id].state_key = "")
       => /\ result'.exc = "ValueError: missing state_key"
          /\ IsGraphError(result')
          /\ current_node' = current_node
          /\ ~workflow_complete']_vars

\* The only declared variable is True and the edge has a "true" branch, yet
\* the call fails.
C18_Witness ==
    /\ call.op = "complete_step"
    /\ workflow_graph = NoKey
    /\ current_node.id = "a"
    /\ state["awake"] = PyTrue
    /\ "true" \in DOMAIN NoKey.edges["a"].branches
    /\ result.exc = "ValueError: missing state_key"
    /\ ~workflow_complete

\* C19: the installed definition is the one start_workflow loaded under the
\* active name, and no get_next_step or complete_step changes it (its schema
\* defaults included).
C19_DefinitionUnchanged ==
    /\ [](workflow_graph # NoneGraph => workflow_graph = FromJson(active_workflow))
    /\ [][(call'.op \in {"get_next_step", "complete_step"})
            => workflow_graph' = workflow_graph]_vars

\* Both variables of wake_up were overwritten; the schema still holds the
\* defaults.
C19_Witness ==
    /\ call.op = "complete_step"
    /\ active_workflow = "wake_up"
    /\ state["awake"] = PyTrue
    /\ state["attempts"] = PyInt1
    /\ workflow_graph.state_schema["awake"].default = PyFalse
    /\ workflow_graph.state_schema["attempts"].default = PyInt0

\* C20: a complete_step with declared keys, made while a step is awaited,
\* leaves every key of the batch at the value given and every other declared
\* variable at the value it had; get_next_step writes no variable, so a
\* value stays until a later batch, start_workflow or stop_workflow.
C20_UpdatesReplaceAndPersist ==
    [][/\ (AdvanceFromStep /\ AllDeclared(call'.state_updates, workflow_graph))
            => /\ DOMAIN state' = DOMAIN workflow_graph.state_schema
               /\ \A key \in DOMAIN workflow_graph.state_schema :
                     state'[key] = IF key \in Keys(call'.state_updates)
                                   THEN ValueOf(call'.state_updates, key)
                                   ELSE state[key]
       /\ (call'.op \in {"get_next_step", "set_agent"}) => state' = state
       /\ (call'.op = "complete_step" /\ Status # "AwaitingStep") => state' = state]_vars

\* awake was written in an earlier step and is still True after a batch
\* that holds only attempts.
C20_Witness ==
    /\ call.op = "complete_step"
    /\ call.state_updates = <<<<"attempts", PyInt1>>>>
    /\ workflow_graph = WakeUp
    /\ state["awake"] = PyTrue
    /\ state["attempts"] = PyInt1
    /\ current_node.id = "done"

\* C21: complete_step does not compare a written value with the declared
\* type tag of its variable: a batch whose keys are declared is accepted
\* whatever the types of its values, every value is stored as given, and a
\* conditional edge that reads a key of the batch is resolved with the
\* branch key of exactly that value.
C21_NoTypeCheck ==
    [][(AdvanceFromStep /\ AllDeclared(call'.state_updates, workflow_graph))
       => /\ ~IsUnknownVariableError(result')
          /\ \A key \in Keys(call'.state_updates) :
                state'[key] = ValueOf(call'.state_updates, key)
          /\ (/\ current_node.id \in DOMAIN workflow_graph.edges
              /\ workflow_graph.edges[current_node.id].type = "condition"
              /\ workflow_graph.edges[current_node.id].state_key
                    \in Keys(call'.state_updates))
             => LET edge == workflow_graph.edges[current_node.id]
                    key == BranchKey(ValueOf(call'.state_updates, edge.state_key))
                IN  IF key \notin DOMAIN edge.branches
                    THEN IsBranchNotFoundError(result')
                    ELSE IF edge.branches[key] = "END"
                    THEN workflow_complete'
                    ELSE result'.node_id = edge.branches[key]]_vars

\* The string "true" was written to the boolean variable awake; it is stored
\* as a string and selects the branch "true".
C21_Witness ==
    /\ call.op = "complete_step"
    /\ call.state_updates = <<<<"awake", PyStrTrue>>>>
    /\ workflow_graph = WakeUp
    /\ workflow_graph.state_schema["awake"].type = "boolean"
    /\ state["awake"] = PyStrTrue
    /\ state["awake"].t # TypeOfTag(workflow_graph.state_schema["awake"].type)
    /\ result.prev = "check"
    /\ result.node_id = "done"

\* The node id, intent and preferred actions of r are those of node, and its
\* snapshot has one entry per variable of the schema of g with the string
\* form of the variable's value in st and its type tag.
DescribesStep(r, node, g, st) ==
    /\ r.node_id = node.id
    /\ r.intent = node.intent
    /\ r.actions = node.preferred_actions
    /\ DOMAIN r.snapshot = DOMAIN g.state_schema
    /\ \A key \in DOMAIN g.state_schema :
          /\ r.snapshot[key].value = PyStr(StateGet(st, key))
          /\ r.snapshot[key].type = g.state_schema[key].type

\* C22 as stated: every step view returned, by get_next_step or by a
\* complete_step that does not complete the run, describes the node the
\* pointer is at and carries the snapshot of every declared variable with
\* its value after the call.
C22_Original ==
    [][(call'.op \in {"get_next_step", "complete_step"} /\ IsStepView(result'))
       => DescribesStep(result', current_node', workflow_graph', state')]_vars

(***************************************************************************)
(* Runs that replace one another: the service's methods, with the run a    *)
(* start_workflow or stop_workflow discards and the keys written since     *)
(* kept as history.                                                        *)
(***************************************************************************)
RestartNames == {"wake_up", "missing"}

\* state_updates with at most one item.
RestartBatches == {q \in Batches : Len(q) <= 1}

\* The run a start_workflow or stop_workflow is about to discard.
DiscardedRun == [state |-> state, node_id |-> current_node.id]

\* The keys a complete_step writes: none when it returns at a guard, else
\* the keys up to the first undeclared one.
WrittenBy(g, node, complete, state_updates) ==
    IF EarlyReturn(g, node, complete) # "" THEN {}
    ELSE {state_updates[i][1] : i \in
            {i \in 1..Len(state_updates) :
                \A j \in 1..i : state_updates[j][1] \in DOMAIN g.state_schema}}

RestartInit ==
    /\ ServiceInit
    /\ ToolIdle
    /\ HistoryIdle
    /\ TwinIdle
    /\ DriverIdle
    /\ EngineIdle
    /\ WorkflowAgentIdle
    /\ WakeUpIdle

RestartNext ==
    \/ \E workflow_name \in RestartNames :
          /\ StartWorkflow(workflow_name)
          /\ IF FileExists(workflow_name)
                THEN /\ written_keys' = {}
                     /\ previous_run' = IF workflow_graph # NoneGraph
                                         THEN DiscardedRun ELSE previous_run
                ELSE UNCHANGED history
          /\ UNCHANGED <<tool, workflow_agent, wake_up, engine, twin, driver>>
    \/ /\ StopWorkflow
       /\ written_keys' = {}
       /\ previous_run' = IF workflow_graph # NoneGraph
                           THEN DiscardedRun ELSE previous_run
       /\ UNCHANGED <<tool, workflow_agent, wake_up, engine, twin, driver>>
    \/ GetNextStep /\ UNCHANGED <<tool, history, workflow_agent, wake_up, engine, twin, driver>>
    \/ \E state_updates \in RestartBatches :
          /\ CompleteStep(state_updates)
          /\ written_keys' = written_keys \cup
                WrittenBy(workflow_graph, current_node, workflow_complete,
                          state_updates)
          /\ UNCHANGED <<previous_run, tool, workflow_agent, wake_up, engine, twin, driver>>

SpecRestart == RestartInit /\ [][RestartNext]_vars

\* C23: at the node check of wake_up (conditional edge on awake, default
\* false, "true" -> done, "false" -> escalate), complete_step({awake: True})
\* returns the step of done; and in a run in which awake has not been
\* written, complete_step({}) returns the step of escalate, whatever the
\* runs before it wrote.
C23_RestartScenario ==
    [][(/\ AdvanceFromStep
        /\ workflow_graph = WakeUp
        /\ current_node.id = "check")
       => /\ (call'.state_updates = <<<<"awake", PyTrue>>>>)
                => /\ IsStepView(result')
                   /\ result'.node_id = "done"
                   /\ current_node'.id = "done"
          /\ (call'.state_updates = <<>> /\ "awake" \notin written_keys)
                => /\ IsStepView(result')
                   /\ result'.node_id = "escalate"
                   /\ current_node'.id = "escalate"]_vars

\* The run before this one went to done with awake = True; this run was
\* advanced from check with no updates and went to escalate.
C23_Witness ==
    /\ call.op = "complete_step"
    /\ call.state_updates = <<>>
    /\ workflow_graph = WakeUp
    /\ result.prev = "check"
    /\ result.node_id = "escalate"
    /\ previous_run.node_id = "done"
    /\ "awake" \in DOMAIN previous_run.state
    /\ previous_run.state["awake"] = PyTrue
    /\ state["awake"] = PyFalse

\* C26: stop_workflow called while a workflow is active leaves workflow_tools
\* empty, and no name that was in workflow_tools, nor any tool of the active
\* workflow's tools.py, is an attribute of the agent class afterwards.
C26_StopUnregistersTools ==
    [][(call'.op = "stop_workflow" /\ active_workflow # "None")
       => /\ workflow_tools' = {}
          /\ agent_class_attrs' \cap workflow_tools = {}
          /\ agent_class_attrs' \cap ToolsPy(active_workflow) = {}]_vars

\* The tool of wake_up was registered on the agent (it is still in the
\* agent's _tools list) and stop_workflow has taken it off the class.
C26_Witness ==
    /\ call.op = "stop_workflow"
    /\ agent_instance
    /\ "get_dummy_calendar_data" \in agent_tools
    /\ "get_dummy_calendar_data" \notin agent_class_attrs
    /\ workflow_tools = {}
    /\ active_workflow = "None"

\* The states over the keys of st that differ from it in any way.
StatesLike(st) ==
    [DOMAIN st -> {PyNone, PyTrue, PyFalse, PyInt0, PyInt1, PyStrTrue}]

\* C25: resolving the edge of the current node changes nothing: after a
\* complete_step that reaches the resolution the state is exactly the state
\* with the batch written, the definition is the same, and when the
\* resolution fails the pointer and the completion flag are the same too;
\* and a normal edge resolves to its target in every state.
C25_ResolutionIsPure ==
    [][(/\ AdvanceFromStep
        /\ AllDeclared(call'.state_updates, workflow_graph)
        /\ current_node.id \in DOMAIN workflow_graph.edges)
       => LET edge == workflow_graph.edges[current_node.id]
              written == [key \in DOMAIN state |->
                            IF key \in Keys(call'.state_updates)
                            THEN ValueOf(call'.state_updates, key)
                            ELSE state[key]]
          IN  /\ state' = written
              /\ workflow_graph' = workflow_graph
              /\ result'.exc \in {"ValueError: target must be a dict",
                                  "ValueError: missing state_key",
                                  "ValueError: not in targets"}
                    => /\ current_node' = current_node
                       /\ workflow_complete' = workflow_complete
              /\ edge.type = "normal"
                    => \A st \in StatesLike(state) :
                          ResolveEdgeTarget(edge, st) = Resolved(edge.target)]_vars

\* A resolution that failed (the number 1 selects no branch of check): the
\* written value is in the state and the pointer has not moved.
C25_Witness ==
    /\ call.op = "complete_step"
    /\ call.state_updates = <<<<"awake", PyInt1>>>>
    /\ workflow_graph = WakeUp
    /\ result.exc = "ValueError: not in targets"
    /\ state = ("awake" :> PyInt1) @@ ("attempts" :> PyInt0)
    /\ current_node.id = "check"
    /\ ~workflow_complete

(***************************************************************************)
(* main_workflow.py: the agent LeLamp and its workflow tools.  Each tool   *)
(* calls the service inside try / except Exception and returns a string.   *)
(***************************************************************************)
\* JSON text, as the sequence of its tokens.
Quote(s) == "\"" \o s \o "\""

\* The strings that occur in the texts.
JsonStrings == {"awake", "attempts", "bogus", "true"}

IsStringToken(token) == \E s \in JsonStrings : token = Quote(s)

Unquote(token) == CHOOSE s \in JsonStrings : token = Quote(s)

IsJsonValue(token) ==
    token \in {"true", "false", "null", "0", "1"} \/ IsStringToken(token)

\* The Python value json.loads makes of a value token.
JsonValue(token) ==
    IF token = "true" THEN PyTrue
    ELSE IF token = "false" THEN PyFalse
    ELSE IF token = "null" THEN PyNone
    ELSE IF token \in {"0", "1"} THEN [t |-> "int", s |-> token]
    ELSE [t |-> "str", s |-> Unquote(token)]

\* The token json.dumps writes for a value.
JsonToken(v) ==
    IF v.t = "str" THEN Quote(v.s)
    ELSE IF v.t = "NoneType" THEN "null"
    ELSE v.s

\* json.dumps of a dict
RECURSIVE JsonMembers(_, _)
JsonMembers(q, i) ==
    <<Quote(q[i][1]), ":", JsonToken(q[i][2])>>
        \o (IF i < Len(q) THEN <<",">> \o JsonMembers(q, i + 1) ELSE <<>>)

JsonDumps(q) ==
    <<"{">> \o (IF q = <<>> THEN <<>> ELSE JsonMembers(q, 1)) \o <<"}">>

\* What json.loads returns: a dict (its items), None, another value, or
\* JSONDecodeError.
Loaded(kind, items, value) == [kind |-> kind, items |-> items, value |-> value]

JSONDecodeError == Loaded("JSONDecodeError", <<>>, PyNone)

\* items[key] = value of a dict under construction
PutItem(items, key, value) ==
    IF \E i \in 1..Len(items) : items[i][1] = key
    THEN [i \in 1..Len(items) |->
             IF items[i][1] = key THEN <<key, value>> ELSE items[i]]
    ELSE Append(items, <<key, value>>)

\* The members of an object from token i on, up to the closing brace.
RECURSIVE ParseMembers(_, _, _)
ParseMembers(tokens, i, items) ==
    IF i + 3 > Len(tokens) THEN JSONDecodeError
    ELSE IF \/ ~IsStringToken(tokens[i])
            \/ tokens[i + 1] # ":"
            \/ ~IsJsonValue(tokens[i + 2])
    THEN JSONDecodeError
    ELSE
    LET put == PutItem(items, Unquote(tokens[i]), JsonValue(tokens[i + 2])) IN
    IF tokens[i + 3] = "}"
    THEN (IF i + 3 = Len(tokens) THEN Loaded("dict", put, PyNone)
          ELSE JSONDecodeError)
    ELSE IF tokens[i + 3] = "," THEN ParseMembers(tokens, i + 4, put)
    ELSE JSONDecodeError

\* json.loads
JsonLoads(tokens) ==
    IF tokens = <<>> THEN JSONDecodeError
    ELSE IF Len(tokens) = 1
    THEN (IF ~IsJsonValue(tokens[1]) THEN JSONDecodeError
          ELSE IF tokens[1] = "null" THEN Loaded("None", <<>>, PyNone)
          ELSE Loaded("scalar", <<>>, JsonValue(tokens[1])))
    ELSE IF tokens[1] # "{" THEN JSONDecodeError
    ELSE IF tokens = <<"{", "}">> THEN Loaded("dict", <<>>, PyNone)
    ELSE ParseMembers(tokens, 2, <<>>)

\* bool(v) of a value
IsTrue(v) == v \notin {PyNone, PyFalse, PyInt0, [t |-> "str", s |-> ""]}

\* The dicts whose JSON text a caller passes.
TextBatches ==
    {q \in Batches : Len(q) <= 1}
        \cup {<<<<"awake", PyTrue>>, <<"attempts", PyInt1>>>>}

\* Texts that are JSON but no object.
ScalarTexts == {<<"null">>, <<"0">>, <<"1">>}

\* Texts json.loads rejects: the empty string, a Python repr, a truncated
\* object, a missing colon, a trailing comma.
MalformedTexts ==
    {<<>>,
     <<"{", "'awake'", ":", "True", "}">>,
     <<"{", Quote("awake"), ":", "true">>,
     <<"{", Quote("awake"), "true", "}">>,
     <<"{", Quote("awake"), ":", "true", ",", "}">>}

JsonTexts == {JsonDumps(q) : q \in TextBatches} \cup ScalarTexts \cup MalformedTexts

\* What the agent framework passes as state_updates.
ToolArgs ==
    {ArgNone} \cup {ArgDict(q) : q \in Batches}
        \cup {ArgStr(text) : text \in JsonTexts}

\* Mutant: a str is handed to the service as it came.
ParsedUpdates_NoParse(arg) ==
    IF arg.kind = "str"
    THEN Loaded("scalar", <<>>, [t |-> "str", s |-> "text"])
    ELSE Loaded(arg.kind, arg.items, PyNone)

\* The value of state_updates after "Handle case where state_updates might
\* come as a string": a str is replaced by json.loads of it, or by None
\* when that raises JSONDecodeError.
ParsedUpdates(arg) ==
    IF arg.kind = "str"
    THEN (IF JsonLoads(arg.text) = JSONDecodeError
          THEN Loaded("None", <<>>, PyNone)
          ELSE JsonLoads(arg.text))
    ELSE Loaded(arg.kind, arg.items, PyNone)

\* Mutant: the tool has no except clause; what the service raises leaves
\* the tool.
ToolReturn_Reraises(prefix, r, value) == IF r.exc # "" THEN r ELSE value

\* What a tool returns when its call of the service ended as r: value, or
\* for an exception e the string prefix + str(e).
ToolReturn(prefix, r, value) ==
    IF r.exc # "" THEN Reply(prefix \o r.exc) ELSE value

\* LeLamp.start_workflow
LeLampStartWorkflow(workflow_name) ==
    /\ tool_call' = ToolCall("start_workflow", workflow_name, ArgNone)
    /\ StartWorkflow(workflow_name)
    /\ tool_result' = ToolReturn("Error starting workflow: ", result',
                                 Reply("Started the workflow"))

\* LeLamp.get_next_step
LeLampGetNextStep ==
    /\ tool_call' = ToolCall("get_next_step", "", ArgNone)
    /\ IF active_workflow = "None"
       THEN /\ tool_result' =
                  Reply("Error: No active workflow. Call start_workflow first.")
            /\ UNCHANGED <<service, agent, call, result>>
       ELSE /\ GetNextStep
            /\ tool_result' = ToolReturn("Error getting next step: ", result', result')

\* WorkflowService.complete_step called with a value that is true and no
\* dict: after the three guards, state_updates.items() raises.
CompleteStepNotDict ==
    /\ call' = Call("complete_step", "", <<>>)
    /\ result' =
         IF EarlyReturn(workflow_graph, current_node, workflow_complete) # ""
         THEN Reply(EarlyReturn(workflow_graph, current_node, workflow_complete))
         ELSE Raise("AttributeError")
    /\ UNCHANGED <<service, agent>>

\* LeLamp.complete_step: the argument handling before the try, then the
\* call of the service inside it.
LeLampCompleteStep(arg) ==
    LET passed == ParsedUpdates(arg) IN
    /\ tool_call' = ToolCall("complete_step", "", arg)
    /\ IF active_workflow = "None"
       THEN /\ tool_result' = Reply("Error: No active workflow.")
            /\ UNCHANGED <<service, agent, call, result>>
       ELSE /\ IF passed.kind = "scalar" /\ IsTrue(passed.value)
               THEN CompleteStepNotDict
               ELSE CompleteStep(passed.items)
            /\ tool_result' = ToolReturn("Error completing step: ", result', result')

\* LeLamp.__init__ (WorkflowService(), set_agent(self)) and the preload of
\* entrypoint.
LeLampInit ==
    /\ active_workflow = "None"
    /\ state = NoneState
    /\ workflow_graph = NoneGraph
    /\ current_node = NoneNode
    /\ workflow_complete = FALSE
    /\ agent_instance = TRUE
    /\ \E workflow_names \in PreloadArgs :
          /\ workflow_tools = PreloadedTools(workflow_names, TRUE)
          /\ agent_class_attrs = PreloadedTools(workflow_names, TRUE)
          /\ agent_tools = PreloadedTools(workflow_names, TRUE)
    /\ call = Call("preload_workflow_tools", "", <<>>)
    /\ result = ReturnsNone
    /\ ToolIdle
    /\ HistoryIdle
    /\ TwinIdle
    /\ DriverIdle
    /\ EngineIdle
    /\ WorkflowAgentIdle
    /\ WakeUpIdle

LeLampNext ==
    \/ \E workflow_name \in WorkflowNames :
          LeLampStartWorkflow(workflow_name)
              /\ UNCHANGED <<history, workflow_agent, wake_up, engine, twin, driver>>
    \/ LeLampGetNextStep /\ UNCHANGED <<history, workflow_agent, wake_up, engine, twin, driver>>
    \/ \E arg \in ToolArgs :
          LeLampCompleteStep(arg)
              /\ UNCHANGED <<history, workflow_agent, wake_up, engine, twin, driver>>

SpecLeLamp == LeLampInit /\ [][LeLampNext]_vars

\* What the service can raise.
ServiceExceptions ==
    {"FileNotFoundError", "JSONDecodeError", "KeyError", "AttributeError",
     "ValueError: target must be a dict",
     "ValueError: missing state_key", "ValueError: not in targets"}

\* An error string a tool builds from a caught exception.
IsCaughtError(r) ==
    /\ r.exc = ""
    /\ \E prefix \in {"Error starting workflow: ", "Error getting next step: ",
                       "Error completing step: "}, e \in ServiceExceptions :
          r.text = prefix \o e

\* C24: no tool ends with an exception; whenever a tool's call of the
\* service raised, the tool returns the error string built from the
\* exception; and a
\* start_workflow of an existing workflow made after a tool has returned
\* such an error succeeds and leaves a run that has not started.
C24_NoFailureReachesHost ==
    /\ [](tool_result.exc = "")
    /\ [][/\ (result'.exc # "" /\ <<call', result'>> # <<call, result>>)
                => IsCaughtError(tool_result')
          /\ (/\ IsCaughtError(tool_result)
              /\ call'.op = "start_workflow"
              /\ FileExists(call'.workflow_name))
                => /\ tool_result' = Reply("Started the workflow")
                   /\ result'.exc = ""
                   /\ active_workflow' = call'.workflow_name
                   /\ StatusOf(workflow_graph', current_node', workflow_complete')
                         = "NotStarted"]_vars

\* The dangling edge of "dangling" made complete_step raise KeyError; the
\* tool returned it as a string and the run is still there.
C24_Witness ==
    /\ call.op = "complete_step"
    /\ workflow_graph = Dangling
    /\ result.exc = "KeyError"
    /\ tool_result = Reply("Error completing step: KeyError")
    /\ active_workflow = "dangling"

(***************************************************************************)
(* workflow_agent.py: class WorkflowAgent.  A workflow of this engine is a *)
(* dict with a list of nodes (id, type, condition) and a list of edges     *)
(* (source, target, condition); None is written "None".                    *)
(***************************************************************************)
N(id, type, condition) == [id |-> id, type |-> type, condition |-> condition]

E(source, target, condition) ==
    [source |-> source, target |-> target, condition |-> condition]

\* gentle -> wait -> check -(true)-> briefing -> end / -(false)-> give_up -> end
AgentWakeUp ==
    [id |-> "wake_up",
     nodes |-> <<N("start", "start", "None"), N("gentle", "intent", "None"),
                 N("wait", "delay", "None"),
                 N("check", "decision", "detect_voice_or_movement"),
                 N("briefing", "intent", "None"), N("give_up", "intent", "None"),
                 N("end", "end", "None")>>,
     edges |-> <<E("start", "gentle", "None"), E("gentle", "wait", "None"),
                 E("wait", "check", "None"), E("check", "briefing", "true"),
                 E("check", "give_up", "false"), E("briefing", "end", "None"),
                 E("give_up", "end", "None")>>]

\* a -> b -(true)-> finish (an end node not named "end") / -(false)-> a
AgentCycle ==
    [id |-> "cycle",
     nodes |-> <<N("start", "start", "None"), N("a", "intent", "None"),
                 N("b", "decision", "detect_voice_or_movement"),
                 N("finish", "end", "None")>>,
     edges |-> <<E("start", "a", "None"), E("a", "b", "None"),
                 E("b", "finish", "true"), E("b", "a", "false")>>]

\* a cycle of nodes that never await
AgentSpin ==
    [id |-> "spin",
     nodes |-> <<N("start", "start", "None"), N("a", "action", "None"),
                 N("b", "decision", "other")>>,
     edges |-> <<E("start", "a", "None"), E("a", "b", "None"),
                 E("b", "a", "None")>>]

\* an edge to a node id that names no node
AgentDangling ==
    [id |-> "dangling",
     nodes |-> <<N("start", "start", "None"), N("a", "intent", "None")>>,
     edges |-> <<E("start", "a", "None"), E("a", "ghost", "None")>>]

\* a single conditional edge, and a node without outgoing edge
AgentDeadEnd ==
    [id |-> "dead_end",
     nodes |-> <<N("start", "start", "None"),
                 N("a", "decision", "detect_voice_or_movement"),
                 N("b", "intent", "None")>>,
     edges |-> <<E("start", "a", "None"), E("a", "b", "true")>>]

\* no start node
AgentNoStart ==
    [id |-> "no_start",
     nodes |-> <<N("a", "intent", "None")>>,
     edges |-> <<E("a", "end", "None")>>]

\* a start node without outgoing edge
AgentNoStartEdge ==
    [id |-> "no_start_edge",
     nodes |-> <<N("start", "start", "None"), N("a", "intent", "None")>>,
     edges |-> <<E("a", "end", "None")>>]

\* self.engine.workflows
EngineWorkflows ==
    {AgentWakeUp, AgentCycle, AgentSpin, AgentDangling, AgentDeadEnd,
     AgentNoStart, AgentNoStartEdge}

\* The ids start_workflow is called with; "not_loaded" is no key of
\* engine.workflows.
WorkflowIds == {w.id : w \in EngineWorkflows} \cup {"not_loaded"}

IsLoaded(workflow_id) == \E w \in EngineWorkflows : w.id = workflow_id

\* self.engine.workflows[workflow_id]
EngineWorkflow(workflow_id) == CHOOSE w \in EngineWorkflows : w.id = workflow_id

\* initial_context or {}
Contexts == {EmptyContext, ("user_responded" :> TRUE)}

\* context.get(key, False)
ContextGet(context, key) == IF key \in DOMAIN context THEN context[key] ELSE FALSE

\* next((n for n in nodes if ...), None): whether there is one, and the first
HasNodeId(w, id) == \E i \in 1..Len(w.nodes) : w.nodes[i].id = id

NodeById(w, id) ==
    w.nodes[CHOOSE i \in 1..Len(w.nodes) :
                /\ w.nodes[i].id = id
                /\ \A j \in 1..(i - 1) : w.nodes[j].id # id]

HasStartNode(w) == \E i \in 1..Len(w.nodes) : w.nodes[i].type = "start"

StartNodeOf(w) ==
    w.nodes[CHOOSE i \in 1..Len(w.nodes) :
                /\ w.nodes[i].type = "start"
                /\ \A j \in 1..(i - 1) : w.nodes[j].type # "start"]

\* edge_map.get(id, []): the edges with this source, in list order
EdgesFrom(w, id) ==
    LET from(e) == e.source = id IN SelectSeq(w.edges, from)

(***************************************************************************)
(* A task: the coroutine _execute_workflow_with_agent(workflow_id,         *)
(* initial_context) with its local variables.  The event loop runs a task  *)
(* from one await to the next without interruption; intent nodes await the *)
(* session's reply and delay nodes await asyncio.sleep.                    *)
(***************************************************************************)
\* asyncio.create_task(self._execute_workflow_with_agent(...)): the task is
\* scheduled and has not run; state is the dict built at lines 106-112.
NewTask(workflow_id, context) ==
    [status |-> "scheduled", must_cancel |-> FALSE, workflow_id |-> workflow_id,
     state |-> [current_node_id |-> "", user_response_detected |-> FALSE,
                context |-> context, history |-> <<>>],
     current_node_id |-> "", iteration |-> 0, outcome |-> ""]

\* The coroutine has returned: "completed" after _execute_workflow_steps,
\* "returned" without a start node, "error" and "cancelled" from the two
\* except clauses.
Ended(f, outcome) == [f EXCEPT !.status = "done", !.outcome = outcome]

max_iterations == 100

\* Mutant: the bound is compared with <=.
LoopContinues_OffByOne(current_node_id, iteration) ==
    current_node_id # "end" /\ iteration <= max_iterations

\* while current_node_id != "end" and iteration < max_iterations
LoopContinues(current_node_id, iteration) ==
    current_node_id # "end" /\ iteration < max_iterations

\* _evaluate_edges
RECURSIVE EvaluateEdgesFrom(_, _, _)
EvaluateEdgesFrom(edges, i, detected) ==
    IF i > Len(edges) THEN edges[1].target
    ELSE LET condition == edges[i].condition IN
         IF condition = "true" /\ detected THEN edges[i].target
         ELSE IF condition = "false" /\ ~detected THEN edges[i].target
         ELSE IF condition = "None" THEN edges[i].target
         ELSE EvaluateEdgesFrom(edges, i + 1, detected)

EvaluateEdges(edges, detected) == EvaluateEdgesFrom(edges, 1, detected)

\* "Determine next node": _evaluate_edges for several edges or an edge
\* with a condition, else the only edge's target.
NextNodeId(node_edges, detected) ==
    IF \/ Len(node_edges) > 1
       \/ \E i \in 1..Len(node_edges) : node_edges[i].condition # "None"
    THEN EvaluateEdges(node_edges, detected)
    ELSE node_edges[1].target

\* _execute_decision
ExecuteDecision(node, st) ==
    IF node.condition = "detect_voice_or_movement"
    THEN [st EXCEPT !.user_response_detected =
                        ContextGet(st.context, "user_responded")]
    ELSE st

\* The node types whose execution awaits.
Awaits(node) == node.type \in {"intent", "delay"}

\* One pass of the while loop of _execute_workflow_steps, from its test to
\* the execution of the node: the coroutine ends, or is suspended at the
\* node's await, or goes on ("running") without giving up the event loop.
Iterate(w, f) ==
    IF ~LoopContinues(f.current_node_id, f.iteration)
    THEN Ended(f, "completed")
    ELSE
    LET counted == [f EXCEPT !.iteration = @ + 1] IN
    IF ~HasNodeId(w, f.current_node_id) THEN Ended(counted, "completed")
    ELSE
    LET this_node == NodeById(w, f.current_node_id)
        entered == [counted EXCEPT
                       !.state.current_node_id = f.current_node_id,
                       !.state.history = Append(@, f.current_node_id)]
    IN
    IF this_node.type = "end" THEN Ended(counted, "completed")
    ELSE IF Awaits(this_node) THEN [entered EXCEPT !.status = "suspended"]
    ELSE IF this_node.type = "decision"
    THEN [entered EXCEPT !.status = "running",
                         !.state = ExecuteDecision(this_node, @)]
    ELSE [entered EXCEPT !.status = "running"]

\* The rest of the loop body after the node's execution, and the next pass.
AfterNode(w, f) ==
    LET node_edges == EdgesFrom(w, f.current_node_id) IN
    IF node_edges = <<>> THEN Ended(f, "completed")
    ELSE Iterate(w, [f EXCEPT !.current_node_id =
                        NextNodeId(node_edges, f.state.user_response_detected)])

\* _execute_workflow_with_agent from its first line.
FirstRun(f) ==
    IF ~IsLoaded(f.workflow_id) THEN Ended(f, "error")
    ELSE
    LET w == EngineWorkflow(f.workflow_id) IN
    IF ~HasStartNode(w) THEN Ended(f, "returned")
    ELSE
    LET start_edges == EdgesFrom(w, StartNodeOf(w).id) IN
    IF start_edges = <<>> THEN Ended(f, "completed")
    ELSE Iterate(w, [f EXCEPT !.current_node_id = start_edges[1].target])

\* The task goes on by one node: CancelledError is thrown into it when it
\* is resumed with a cancellation pending.
RunTask(f) ==
    IF f.must_cancel /\ f.status # "running" THEN Ended(f, "cancelled")
    ELSE IF f.status = "scheduled" THEN FirstRun(f)
    ELSE AfterNode(EngineWorkflow(f.workflow_id), f)

\* asyncio runs one callback at a time: while a task is between two awaits
\* nothing else runs.
EventLoopFree == \A t \in TaskIds : tasks[t].status # "running"

TaskStep(t) ==
    /\ \/ tasks[t].status = "running"
       \/ tasks[t].status \in {"scheduled", "suspended"} /\ EventLoopFree
    /\ LET f == RunTask(tasks[t]) IN
          /\ tasks' = [tasks EXCEPT ![t] = f]
          /\ workflow_state' =
                IF f.outcome = "completed" THEN f.state ELSE workflow_state
    /\ UNCHANGED current_workflow_task

(***************************************************************************)
(* One task, for every workflow and context, run to its end.               *)
(***************************************************************************)
StepsInit ==
    /\ \E workflow_id \in WorkflowIds, context \in Contexts :
          tasks = [t \in TaskIds |->
                     IF t = 1 THEN NewTask(workflow_id, context) ELSE NoCoroutine]
    /\ current_workflow_task = 1
    /\ workflow_state = NoneWorkflowState
    /\ ServiceInit
    /\ ToolIdle
    /\ HistoryIdle
    /\ TwinIdle
    /\ DriverIdle
    /\ EngineIdle
    /\ WakeUpIdle

StepsNext ==
    \E t \in TaskIds :
        /\ TaskStep(t)
        /\ UNCHANGED <<service, agent, call, result, tool, history, wake_up, engine,
                       twin, driver>>

\* The event loop runs every task that is ready.
SpecSteps == StepsInit /\ [][StepsNext]_vars /\ WF_vars(StepsNext)

\* Why a coroutine that completed has left the loop: no edge from the start
\* node, the loop's test, a node id that is unknown or names an end node,
\* or a node without outgoing edge.
StopReason(w, f) ==
    \/ f.iteration = 0 /\ EdgesFrom(w, StartNodeOf(w).id) = <<>>
    \/ f.current_node_id = "end"
    \/ f.iteration = max_iterations
    \/ ~HasNodeId(w, f.current_node_id)
    \/ NodeById(w, f.current_node_id).type = "end"
    \/ EdgesFrom(w, f.current_node_id) = <<>>

\* C27: _execute_workflow_steps terminates on every workflow, cyclic ones
\* included, when every node's await returns: a task executes at most
\* max_iterations nodes; it never executes an end node or an unknown node
\* id, and after a node without outgoing edge it executes nothing but ends;
\* a completed run has stopped for one of these reasons; and every task
\* eventually is done.
C27_StepsTerminate ==
    /\ [](\A t \in TaskIds :
            /\ tasks[t].iteration <= max_iterations
            /\ Len(tasks[t].state.history) <= max_iterations
            /\ Len(tasks[t].state.history) <= tasks[t].iteration)
    /\ [][\A t \in TaskIds :
            (tasks'[t] # tasks[t] /\ IsLoaded(tasks[t].workflow_id)) =>
                LET w == EngineWorkflow(tasks[t].workflow_id)
                    f == tasks[t]
                    g == tasks'[t]
                IN
                /\ (g.state.history # f.state.history) =>
                       /\ g.state.history = Append(f.state.history, g.current_node_id)
                       /\ g.current_node_id # "end"
                       /\ HasNodeId(w, g.current_node_id)
                       /\ NodeById(w, g.current_node_id).type # "end"
                /\ (/\ f.status \in {"suspended", "running"}
                    /\ ~f.must_cancel
                    /\ EdgesFrom(w, f.current_node_id) = <<>>) =>
                       /\ g.status = "done"
                       /\ g.state.history = f.state.history
                /\ (g.status = "done" /\ g.outcome = "completed") =>
                       StopReason(w, g)]_vars
    /\ <>(\A t \in TaskIds : tasks[t].status \in {"none", "done"})

\* The run of the cyclic workflow that was stopped by the bound.
C27_Witness ==
    /\ tasks[1].workflow_id = "cycle"
    /\ tasks[1].status = "done"
    /\ tasks[1].outcome = "completed"
    /\ Len(tasks[1].state.history) = max_iterations
    /\ workflow_state = tasks[1].state

(***************************************************************************)
(* start_workflow and stop_workflow together with the tasks they create.   *)
(***************************************************************************)
\* Mutant: the previous task is left alone.
CancelIfRunning_Never(ts, current) == ts

\* if self.current_workflow_task and not self.current_workflow_task.done():
\*     self.current_workflow_task.cancel()
CancelIfRunning(ts, current) ==
    IF current # NoTask /\ ts[current].status # "done"
    THEN [ts EXCEPT ![current].must_cancel = TRUE]
    ELSE ts

\* The workflows started where tasks overlap.
TaskWorkflowIds == {"wake_up", "dead_end", "not_loaded"}

\* WorkflowAgent.start_workflow; at most MaxTasks tasks are created.
AgentStartWorkflow(workflow_id, context) ==
    /\ EventLoopFree
    /\ \E t \in TaskIds :
          /\ tasks[t].status = "none"
          /\ \A u \in 1..(t - 1) : tasks[u].status # "none"
          /\ tasks' = [CancelIfRunning(tasks, current_workflow_task)
                          EXCEPT ![t] = NewTask(workflow_id, context)]
          /\ current_workflow_task' = t
    /\ UNCHANGED workflow_state

\* WorkflowAgent.stop_workflow
AgentStopWorkflow ==
    /\ EventLoopFree
    /\ tasks' = CancelIfRunning(tasks, current_workflow_task)
    /\ UNCHANGED <<current_workflow_task, workflow_state>>

TasksInit ==
    /\ WorkflowAgentIdle
    /\ ServiceInit
    /\ ToolIdle
    /\ HistoryIdle
    /\ TwinIdle
    /\ DriverIdle
    /\ EngineIdle
    /\ WakeUpIdle

TasksNext ==
    \/ \E workflow_id \in TaskWorkflowIds, context \in Contexts :
          /\ AgentStartWorkflow(workflow_id, context)
          /\ UNCHANGED <<service, agent, call, result, tool, history, wake_up, engine, twin, driver>>
    \/ AgentStopWorkflow
          /\ UNCHANGED <<service, agent, call, result, tool, history, wake_up, engine, twin, driver>>
    \/ \E t \in TaskIds :
          /\ TaskStep(t)
          /\ UNCHANGED <<service, agent, call, result, tool, history, wake_up, engine, twin, driver>>

SpecTasks == TasksInit /\ [][TasksNext]_vars

\* The tasks that have not ended and have no cancellation requested.
Uncancelled ==
    {t \in TaskIds : /\ tasks[t].status \in {"scheduled", "suspended", "running"}
                     /\ ~tasks[t].must_cancel}

\* C28: start_workflow called while the previous task has not ended requests
\* its cancellation and then creates the new task; at any time at most one
\* task is running without a pending cancellation, and it is
\* current_workflow_task; a task whose cancellation was requested executes
\* no further node and does not write workflow_state, which only ever holds
\* the state of a run that completed uncancelled.
C28_StartCancelsPrevious ==
    /\ [](/\ Cardinality(Uncancelled) <= 1
          /\ Uncancelled \subseteq {current_workflow_task}
          /\ workflow_state # NoneWorkflowState =>
                \E t \in TaskIds : /\ tasks[t].outcome = "completed"
                                   /\ ~tasks[t].must_cancel
                                   /\ workflow_state = tasks[t].state)
    /\ [][/\ current_workflow_task' # current_workflow_task =>
               /\ tasks'[current_workflow_task'].status = "scheduled"
               /\ tasks[current_workflow_task'].status = "none"
               /\ (/\ current_workflow_task # NoTask
                   /\ tasks[current_workflow_task].status # "done") =>
                      tasks'[current_workflow_task].must_cancel
          /\ \A t \in TaskIds :
               (tasks[t].must_cancel /\ tasks'[t] # tasks[t]) =>
                   /\ tasks'[t].status = "done"
                   /\ tasks'[t].outcome = "cancelled"
                   /\ tasks'[t].state = tasks[t].state
                   /\ workflow_state' = workflow_state]_vars

\* The first run was cancelled by the second start after it had executed a
\* node, and the second run completed.
C28_Witness ==
    /\ tasks[1].outcome = "cancelled"
    /\ tasks[1].state.history # <<>>
    /\ tasks[2].outcome = "completed"
    /\ tasks[2].state.history # <<>>
    /\ current_workflow_task = 2
    /\ workflow_state = tasks[2].state

(***************************************************************************)
(* WakeUpWorkflow: the graph of _build_graph run by LangGraph from START,  *)
(* one node per step, each node followed by its edge or by the router.     *)
(***************************************************************************)
WakeAttempts == {"gentle_wake", "energetic_wake", "aggressive_wake"}

Evaluators == {"evaluate_response_1", "evaluate_response_2", "evaluate_response_3"}

\* add_edge
WakeEdges ==
    [START |-> "gentle_wake",
     gentle_wake |-> "evaluate_response_1",
     energetic_wake |-> "evaluate_response_2",
     aggressive_wake |-> "evaluate_response_3",
     morning_briefing |-> "END",
     give_up |-> "END"]

\* add_conditional_edges: the path map of each evaluator
WakeConditionalEdges ==
    [evaluate_response_1 |-> [awake |-> "morning_briefing", continue |-> "energetic_wake"],
     evaluate_response_2 |-> [awake |-> "morning_briefing", continue |-> "aggressive_wake"],
     evaluate_response_3 |-> [awake |-> "morning_briefing", continue |-> "give_up"]]

\* Mutant: every "continue" leads to give_up.
ConditionalTarget_GivesUpEarly(source, route) ==
    IF route = "awake" THEN "morning_briefing" ELSE "give_up"

ConditionalTarget(source, route) == WakeConditionalEdges[source][route]

\* Mutant: the router never reports "awake".
RouteAfterEvaluation_AlwaysContinue(st) == "continue"

\* _route_after_evaluation
RouteAfterEvaluation(st) == IF st.user_awake THEN "awake" ELSE "continue"

\* The state a node function returns.
WakeNodeReturns(node, st) ==
    IF node = "gentle_wake"
    THEN [st EXCEPT !.workflow_path = Append(@, "gentle_wake")]
    ELSE IF node \in {"energetic_wake", "aggressive_wake"}
    THEN [st EXCEPT !.workflow_path = Append(@, node),
                       !.attempt_count = @ + 1]
    ELSE IF node \in Evaluators
    THEN [st EXCEPT !.workflow_path = Append(@, "evaluate"),
                       !.user_awake = ContextGet(st.context, "user_responded")]
    ELSE [st EXCEPT !.workflow_path = Append(@, node)]

\* The agent calls in a node's try block that change the lamp, in order.
WakeNodeCalls(node) ==
    IF node = "gentle_wake"
    THEN <<[attr |-> "rgb", value |-> "255,200,100"],
           [attr |-> "recording", value |-> "wake_up"]>>
    ELSE IF node = "energetic_wake"
    THEN <<[attr |-> "rgb", value |-> "255,100,0"],
           [attr |-> "recording", value |-> "excited"]>>
    ELSE IF node = "aggressive_wake"
    THEN <<[attr |-> "rgb", value |-> "flashing_pattern"],
           [attr |-> "recording", value |-> "shock"]>>
    ELSE IF node = "morning_briefing"
    THEN <<[attr |-> "rgb", value |-> "100,200,255"],
           [attr |-> "recording", value |-> "happy_wiggle"]>>
    ELSE IF node = "give_up"
    THEN <<[attr |-> "rgb", value |-> "50,50,100"],
           [attr |-> "recording", value |-> "sad"]>>
    ELSE <<>>

\* The lamp after the first k calls; the call after them raised, which the
\* node's except clause logs.
RECURSIVE LampAfter(_, _, _)
LampAfter(l, calls, k) ==
    IF k = 0 THEN l
    ELSE [LampAfter(l, calls, k - 1) EXCEPT ![calls[k].attr] = calls[k].value]

\* The node LangGraph runs after this one.
NextWakeNode(node, st) ==
    IF node \in Evaluators
    THEN ConditionalTarget(node, RouteAfterEvaluation(st))
    ELSE WakeEdges[node]

\* graph.ainvoke: one step of the graph.
WakeNodeStep ==
    /\ wake_node \notin {"None", "END"}
    /\ IF wake_node = "START"
       THEN /\ wake_node' = WakeEdges["START"]
            /\ UNCHANGED <<wake_state, evaluations, lamp>>
       ELSE LET returned == WakeNodeReturns(wake_node, wake_state) IN
            /\ wake_state' = returned
            /\ wake_node' = NextWakeNode(wake_node, returned)
            /\ evaluations' = IF wake_node \in Evaluators
                               THEN Append(evaluations, returned.user_awake)
                               ELSE evaluations
            /\ \E k \in 0..Len(WakeNodeCalls(wake_node)) :
                  lamp' = LampAfter(lamp, WakeNodeCalls(wake_node), k)

\* The caller keeps the context dict it passed to execute and may set
\* user_responded in it while a node awaits.
WakeContextUpdate(responded) ==
    /\ wake_node \notin {"None", "END"}
    /\ wake_state' = [wake_state EXCEPT !.context =
                         [key \in DOMAIN @ \cup {"user_responded"} |->
                             IF key = "user_responded" THEN responded ELSE @[key]]]
    /\ UNCHANGED <<wake_node, evaluations, lamp>>

\* execute: the initial state handed to graph.ainvoke
WakeUpInit ==
    /\ \E context \in Contexts :
          wake_state = [attempt_count |-> 0, user_awake |-> FALSE,
                        workflow_path |-> <<>>, context |-> context]
    /\ wake_node = "START"
    /\ evaluations = <<>>
    /\ lamp = NoneLamp
    /\ ServiceInit
    /\ ToolIdle
    /\ HistoryIdle
    /\ TwinIdle
    /\ DriverIdle
    /\ EngineIdle
    /\ WorkflowAgentIdle

\* A step of the graph leaves everything but the execution and the lamp alone.
WakeGraphStep ==
    /\ WakeNodeStep
    /\ UNCHANGED <<service, agent, call, result, tool, history, workflow_agent, engine, twin, driver>>

WakeUpNext ==
    \/ WakeGraphStep
    \/ \E responded \in BOOLEAN :
          /\ WakeContextUpdate(responded)
          /\ UNCHANGED <<service, agent, call, result, tool, history, workflow_agent, engine, twin, driver>>

\* Every node returns: its awaits complete or raise.
SpecWakeUp == WakeUpInit /\ [][WakeUpNext]_vars /\ WF_vars(WakeGraphStep)

\* How often a node's name is on the path.
Visits(path, name) == Cardinality({i \in DOMAIN path : path[i] = name})

\* C29: every execution of the wake-up graph reaches END; it visits
\* morning_briefing or give_up, never both and neither twice, and at END
\* exactly one of them; morning_briefing is visited exactly when some
\* evaluation found user_awake true; and morning_briefing is the last node
\* of its path, so no wake attempt runs after it.
C29_EndsAfterBriefingOrGiveUp ==
    /\ [](LET path == wake_state.workflow_path
              briefings == Visits(path, "morning_briefing")
              surrenders == Visits(path, "give_up")
          IN
          /\ briefings + surrenders <= 1
          /\ wake_node = "END" => briefings + surrenders = 1
          /\ (wake_node = "morning_briefing" \/ briefings = 1)
                <=> (\E i \in DOMAIN evaluations : evaluations[i])
          /\ briefings = 1 =>
                /\ path[Len(path)] = "morning_briefing"
                /\ wake_node = "END")
    /\ <>(wake_node = "END")

\* The second evaluation found the user awake and the graph ended after the
\* briefing.
C29_Witness ==
    /\ wake_node = "END"
    /\ evaluations = <<FALSE, TRUE>>
    /\ wake_state.workflow_path =
          <<"gentle_wake", "evaluate", "energetic_wake", "evaluate", "morning_briefing">>

\* C30: give_up is reached only after three wake attempts: when give_up is
\* next or on the path, the path before it is gentle_wake, energetic_wake
\* and aggressive_wake in that order, each followed by an evaluation, and
\* each of the three evaluations found the user not awake.
C30_GiveUpAfterThreeAttempts ==
    (wake_node = "give_up" \/ Visits(wake_state.workflow_path, "give_up") > 0) =>
        /\ Len(wake_state.workflow_path) = IF wake_node = "give_up" THEN 6 ELSE 7
        /\ SubSeq(wake_state.workflow_path, 1, 6) =
              <<"gentle_wake", "evaluate", "energetic_wake", "evaluate",
                "aggressive_wake", "evaluate">>
        /\ evaluations = <<FALSE, FALSE, FALSE>>

\* The graph ended after give_up.
C30_Witness ==
    /\ wake_node = "END"
    /\ Len(wake_state.workflow_path) = 7
    /\ wake_state.workflow_path[7] = "give_up"
    /\ lamp.recording = "sad"

\* How many wake attempts are on the path.
AttemptsOn(path) == Cardinality({i \in DOMAIN path : path[i] \in WakeAttempts})

\* C39: at the end of execute() the attempt_count it reports as the total
\* number of attempts equals the number of wake attempts (gentle_wake,
\* energetic_wake, aggressive_wake) executed on the path taken.
C39_Original ==
    wake_node = "END" =>
        wake_state.attempt_count = AttemptsOn(wake_state.workflow_path)

(***************************************************************************)
(* The edge selectors of the two graph runners: the router that            *)
(* WorkflowEngine.compile_workflow builds for a node, and                  *)
(* WorkflowAgent._evaluate_edges, applied to lists of outgoing edges.      *)
(***************************************************************************)
MaxEdges == 3

\* edge.condition: None, the two known conditions and an unknown one
EdgeConditions == {"None", "true", "false", "other"}

\* The target of the i-th edge of a list.
EdgeTargets == [i \in 1..(MaxEdges + 1) |-> <<"a", "b", "c", "d", "e">>[i]]

\* The lists of outgoing edges of a node "n".
EdgeLists ==
    UNION {{[i \in 1..len |-> E("n", EdgeTargets[i], conditions[i])] :
               conditions \in [1..len -> EdgeConditions]} : len \in 1..MaxEdges}

\* The ids of the end-type nodes of the workflow: none, or one of the targets.
EndNodeSets == {{}} \cup {{EdgeTargets[i]} : i \in 1..MaxEdges}

\* Mutant: an unknown condition holds.
EvaluateCondition_UnknownHolds(condition, detected) ==
    IF condition = "true" THEN detected
    ELSE IF condition = "false" THEN ~detected
    ELSE TRUE

\* WorkflowEngine._evaluate_condition
EvaluateCondition(condition, detected) ==
    IF condition = "true" THEN detected
    ELSE IF condition = "false" THEN ~detected
    ELSE FALSE

\* if target_node and target_node.type == "end": return END
EndOr(target, end_nodes) == IF target \in end_nodes THEN "END" ELSE target

\* route(state): the for loop from the i-th edge, then the default
RECURSIVE RouteFrom(_, _, _, _)
RouteFrom(edges, i, end_nodes, detected) ==
    IF i > Len(edges) THEN EndOr(edges[1].target, end_nodes)
    ELSE IF /\ edges[i].condition # "None"
            /\ EvaluateCondition(edges[i].condition, detected)
    THEN EndOr(edges[i].target, end_nodes)
    ELSE RouteFrom(edges, i + 1, end_nodes, detected)

Route(edges, end_nodes, detected) == RouteFrom(edges, 1, end_nodes, detected)

\* if len(source_edges) > 1 or conditional_edges: the node gets a router
HasRouter(edges) ==
    \/ Len(edges) > 1
    \/ \E i \in 1..Len(edges) : edges[i].condition # "None"

\* The compiled graph calls the router of the node.
EngineRoute ==
    /\ routing.edges # <<>>
    /\ HasRouter(routing.edges)
    /\ routing' = [routing EXCEPT !.route =
                      Route(routing.edges, routing.end_nodes,
                            routing.user_response_detected)]

\* The agent's loop calls _evaluate_edges for the node.
AgentEvaluateEdges ==
    /\ routing.edges # <<>>
    /\ HasRouter(routing.edges)
    /\ routing' = [routing EXCEPT !.evaluated =
                      EvaluateEdges(routing.edges, routing.user_response_detected)]

\* A node's outgoing edges, the end-type nodes and the flag, before either
\* selector has run on them.
SelectorsInit ==
    /\ \E edges \in EdgeLists, end_nodes \in EndNodeSets, detected \in BOOLEAN :
          routing = [edges |-> edges, end_nodes |-> end_nodes,
                     user_response_detected |-> detected,
                     route |-> "None", evaluated |-> "None"]
    /\ ServiceInit
    /\ ToolIdle
    /\ HistoryIdle
    /\ TwinIdle
    /\ DriverIdle
    /\ WorkflowAgentIdle
    /\ WakeUpIdle

SelectorsNext ==
    \/ /\ EngineRoute
       /\ UNCHANGED <<service, agent, call, result, tool, history, workflow_agent, wake_up, twin, driver>>
    \/ /\ AgentEvaluateEdges
       /\ UNCHANGED <<service, agent, call, result, tool, history, workflow_agent, wake_up, twin, driver>>

SpecSelectors == SelectorsInit /\ [][SelectorsNext]_vars

\* The edge's condition is "true" or "false" and holds for the flag.
ConditionHolds(edge, detected) ==
    \/ edge.condition = "true" /\ detected
    \/ edge.condition = "false" /\ ~detected

\* C31: the router returns the target of the first edge, in declaration
\* order, whose condition holds for user_response_detected, the first
\* edge's target if no edge's condition holds, and END in place of a target
\* that is an end-type node.
C31_RouterFirstHolding ==
    routing.route # "None" =>
        LET edges == routing.edges
            detected == routing.user_response_detected
            holding == {i \in 1..Len(edges) : ConditionHolds(edges[i], detected)}
            chosen == IF holding = {} THEN 1
                      ELSE CHOOSE i \in holding : \A j \in holding : i <= j
        IN routing.route = IF edges[chosen].target \in routing.end_nodes
                           THEN "END" ELSE edges[chosen].target

\* The router passed an unknown condition and an edge whose condition did
\* not hold, and returned END for the third edge's end-type target.
C31_Witness ==
    /\ Len(routing.edges) = 3
    /\ routing.edges[1].condition = "other"
    /\ routing.edges[2].condition = "true"
    /\ routing.edges[3].condition = "false"
    /\ ~routing.user_response_detected
    /\ routing.end_nodes = {routing.edges[3].target}
    /\ routing.route = "END"

\* C40: for every list of outgoing edges whose conditions are "true",
\* "false" or none, and every value of user_response_detected,
\* _evaluate_edges and the engine's router select the same edge: the router
\* returns the target _evaluate_edges returns, as END when it is an
\* end-type node.
C40_Original ==
    (/\ routing.route # "None"
     /\ routing.evaluated # "None"
     /\ \A i \in 1..Len(routing.edges) :
           routing.edges[i].condition \in {"None", "true", "false"}) =>
        routing.route = EndOr(routing.evaluated, routing.end_nodes)

\* The step is what the tool complete_step does from this state when it is
\* handed the dict q.
SameAsDict(q) ==
    IF active_workflow = "None"
    THEN /\ tool_result' = Reply("Error: No active workflow.")
         /\ UNCHANGED <<service, agent>>
    ELSE LET out == complete_step(workflow_graph, current_node,
                                  workflow_complete, state, q)
         IN
         /\ state' = out.state
         /\ current_node' = out.current_node
         /\ workflow_complete' = out.workflow_complete
         /\ result' = out.result
         /\ tool_result' =
               IF out.result.exc # ""
               THEN Reply("Error completing step: " \o out.result.exc)
               ELSE out.result

\* C32: a call of the tool complete_step whose state_updates is the JSON
\* text of a dict does what the call with that dict does; a call whose
\* state_updates is a string that is not valid JSON does what the call
\* without updates does, and so returns no error about the malformed input.
C32_StringUpdatesParsed ==
    [][(tool_call'.op = "complete_step" /\ tool_call'.arg.kind = "str") =>
          /\ \A q \in TextBatches :
                tool_call'.arg.text = JsonDumps(q) => SameAsDict(q)
          /\ tool_call'.arg.text \in MalformedTexts => SameAsDict(<<>>)]_vars

\* A Python repr passed as state_updates was dropped and the step advanced
\* from "gentle" to "check".
C32_Witness ==
    /\ tool_call.op = "complete_step"
    /\ tool_call.arg.kind = "str"
    /\ tool_call.arg.text = <<"{", "'awake'", ":", "True", "}">>
    /\ workflow_graph = WakeUp
    /\ current_node.id = "check"
    /\ call.op = "complete_step"
    /\ tool_result = result
    /\ result.exc = ""
    /\ state["awake"] = PyFalse

\* C33: a start_workflow that fails while loading the definition (no file,
\* or content json.load rejects) changes none of the run's fields: the
\* definition, the state, the pointer, the completion flag and the active
\* workflow name are as before the call, and so are the loaded tools.
C33_FailedStartKeepsRun ==
    [][(call'.op = "start_workflow" /\ result'.exc # "") =>
          /\ result'.exc \in {"FileNotFoundError", "JSONDecodeError"}
          /\ UNCHANGED <<workflow_graph, state, current_node,
                         workflow_complete, active_workflow, workflow_tools>>]_vars

\* A start of the malformed definition failed while the wake-up run was at
\* "check" with a written state.
C33_Witness ==
    /\ call.op = "start_workflow"
    /\ call.workflow_name = "malformed"
    /\ result.exc = "JSONDecodeError"
    /\ active_workflow = "wake_up"
    /\ workflow_graph = WakeUp
    /\ current_node.id = "check"
    /\ state["attempts"] = PyInt1
    /\ ~workflow_complete

\* The last call was a complete_step that failed while resolving the edge.
ResolutionFailed(c, r) ==
    /\ c.op = "complete_step"
    /\ IsBranchNotFoundError(r) \/ (IsGraphError(r) /\ r.exc # "")

\* C34: a complete_step that fails during edge resolution leaves the
\* pointer at the same node, the run awaiting the step and the definition
\* installed; and the complete_step that follows such a failure, with
\* declared keys that set the edge's state_key to a value whose branch is
\* declared, does not fail and goes to that branch (the node, or the end of
\* the run for END).
C34_RetryAfterFailedResolution ==
    [][/\ (AdvanceFromStep /\ ResolutionFailed(call', result')) =>
             /\ current_node' = current_node
             /\ workflow_graph' = workflow_graph
             /\ active_workflow' = active_workflow
             /\ StatusOf(workflow_graph', current_node', workflow_complete')
                   = "AwaitingStep"
       /\ (/\ ResolutionFailed(call, result)
           /\ AdvanceOverConditional
           /\ workflow_graph.edges[current_node.id].state_key
                 \in Keys(call'.state_updates)) =>
             LET edge == workflow_graph.edges[current_node.id]
                 key == BranchKey(ValueOf(call'.state_updates, edge.state_key))
             IN
             (/\ key \in DOMAIN edge.branches
              /\ edge.branches[key] \in DOMAIN workflow_graph.nodes \cup {"END"}) =>
                 /\ ~IsError(result')
                 /\ IF edge.branches[key] = "END"
                    THEN workflow_complete'
                    ELSE /\ current_node' = workflow_graph.nodes[edge.branches[key]]
                         /\ ~workflow_complete']_vars

\* The advance from "check" failed on the branch key "1"; the run still
\* awaits the step at "check".
C34_Witness ==
    /\ ResolutionFailed(call, result)
    /\ call.state_updates = <<<<"attempts", PyInt1>>, <<"awake", PyInt1>>>>
    /\ IsBranchNotFoundError(result)
    /\ workflow_graph = WakeUp
    /\ current_node.id = "check"
    /\ Status = "AwaitingStep"

(***************************************************************************)
(* Two WorkflowService objects driven by the same sequence of calls.  The  *)
(* second may be handed other values for the declared variables that no    *)
(* conditional edge of the definition reads.                               *)
(***************************************************************************)
\* The state variables the conditional edges of g read.
RoutingKeys(g) == {g.edges[src].state_key : src \in DOMAIN g.edges} \ {""}

\* The declared variables no edge reads.
FreeKeys(g) == DOMAIN g.state_schema \ RoutingKeys(g)

\* The items of a dict whose keys are not in K, in order.
WithoutKeys(q, K) == SelectSeq(q, LAMBDA item : item[1] \notin K)

\* The items of a dict with the values under the keys in K replaced by 0.
Revalued(q, K) ==
    [i \in 1..Len(q) |-> IF q[i][1] \in K THEN <<q[i][1], PyInt0>> ELSE q[i]]

\* What the second caller passes where the first passes q: the same dict,
\* the dict without the free keys, or the dict with other values under them.
OtherUpdates(q, g) == {q, WithoutKeys(q, FreeKeys(g)), Revalued(q, FreeKeys(g))}

\* The first service as an Instance.
Self ==
    Instance(active_workflow, state, workflow_graph, current_node,
             workflow_complete, call, result)

\* start_workflow on both services
TwinStartWorkflow(workflow_name) ==
    /\ StartWorkflow(workflow_name)
    /\ replica' =
         IF LoadError(workflow_name) # ""
         THEN [replica EXCEPT !.call = Call("start_workflow", workflow_name, <<>>),
                              !.result = Raise(LoadError(workflow_name))]
         ELSE Instance(workflow_name, StateDefaults(FromJson(workflow_name)),
                       FromJson(workflow_name), NoneNode, FALSE,
                       Call("start_workflow", workflow_name, <<>>), ReturnsNone)

\* get_next_step on both services
TwinGetNextStep ==
    /\ GetNextStep
    /\ LET out == get_next_step(replica.workflow_graph, replica.current_node,
                                replica.workflow_complete, replica.state)
       IN replica' = [replica EXCEPT !.current_node = out.current_node,
                                     !.result = out.result,
                                     !.call = Call("get_next_step", "", <<>>)]

\* complete_step on both services: the second is handed other_updates, which
\* has the items of state_updates for every key but the free ones.
TwinCompleteStep(state_updates, other_updates) ==
    /\ WithoutKeys(state_updates, FreeKeys(workflow_graph))
         = WithoutKeys(other_updates, FreeKeys(workflow_graph))
    /\ CompleteStep(state_updates)
    /\ LET out == complete_step(replica.workflow_graph, replica.current_node,
                                replica.workflow_complete, replica.state,
                                other_updates)
       IN replica' =
            [replica EXCEPT
                !.state = out.state,
                !.current_node = out.current_node,
                !.workflow_complete = out.workflow_complete,
                !.workflow_graph = GraphAfterUpdates(replica.workflow_graph, out.state),
                !.result = out.result,
                !.call = Call("complete_step", "", other_updates)]

TwinInit ==
    /\ ServiceInit
    /\ ToolIdle
    /\ HistoryIdle
    /\ TwinIdle
    /\ DriverIdle
    /\ EngineIdle
    /\ WorkflowAgentIdle
    /\ WakeUpIdle

TwinNext ==
    \/ \E workflow_name \in WorkflowNames :
          /\ TwinStartWorkflow(workflow_name)
          /\ UNCHANGED <<tool, history, workflow_agent, wake_up, engine, driver>>
    \/ /\ TwinGetNextStep
       /\ UNCHANGED <<tool, history, workflow_agent, wake_up, engine, driver>>
    \/ \E state_updates \in Batches :
        \E other_updates \in OtherUpdates(state_updates, workflow_graph) :
          /\ TwinCompleteStep(state_updates, other_updates)
          /\ UNCHANGED <<tool, history, workflow_agent, wake_up, engine, driver>>

SpecTwin == TwinInit /\ [][TwinNext]_vars

\* C36: two services started on the same definition and driven by the same
\* calls hold the same fields and results after every call; and when the
\* calls differ only in the values of variables no conditional edge reads,
\* the two still have the same definition, pointer and completion flag,
\* the same values of the variables the edges read, and results for the
\* same node with the same outcome.
C36_SameCallsSameRun ==
    /\ [](/\ replica.active_workflow = active_workflow
          /\ replica.workflow_graph = workflow_graph
          /\ replica.current_node = current_node
          /\ replica.workflow_complete = workflow_complete
          /\ \A key \in RoutingKeys(workflow_graph) :
                StateGet(replica.state, key) = StateGet(state, key)
          /\ replica.result.text = result.text
          /\ replica.result.exc = result.exc
          /\ replica.result.node_id = result.node_id)
    /\ [][(replica = Self /\ replica'.call = call') => replica' = Self']_vars

\* Both services went from "check" to "done" on awake = True although only
\* the first was handed a value for "attempts".
C36_Witness ==
    /\ workflow_graph = WakeUp
    /\ call.op = "complete_step"
    /\ call.state_updates = <<<<"attempts", PyInt1>>, <<"awake", PyTrue>>>>
    /\ replica.call.state_updates = <<<<"awake", PyTrue>>>>
    /\ current_node.id = "done"
    /\ replica.current_node.id = "done"
    /\ replica.state["attempts"] # state["attempts"]

(***************************************************************************)
(* Invariants of the fields of WorkflowService.                            *)
(***************************************************************************)
\* The node ids an edge can resolve to.
EdgeTargetIds(edge) ==
    IF edge.type = "normal" THEN {edge.target}
    ELSE {edge.branches[k] : k \in DOMAIN edge.branches}

\* Every edge target of g other than END names a node of g.
TargetsExist(g) ==
    \A src \in DOMAIN g.edges :
        EdgeTargetIds(g.edges[src]) \subseteq DOMAIN g.nodes \cup {"END"}

\* C37: under a definition whose edge targets other than END all name
\* nodes, a defined pointer is a node of the installed definition, stored
\* under its own id, and is neither START nor END; and a call that installs
\* another definition leaves no pointer behind.
C37_PointerInInstalledDefinition ==
    /\ []((TargetsExist(workflow_graph) /\ current_node # NoneNode) =>
            /\ Status \in {"AwaitingStep", "Complete"}
            /\ current_node.id \in DOMAIN workflow_graph.nodes
            /\ workflow_graph.nodes[current_node.id] = current_node
            /\ current_node.id \notin {"START", "END"})
    /\ [][workflow_graph' # workflow_graph => current_node' = NoneNode]_vars

\* The cyclic definition went round once: the pointer is back on "a" after
\* b's conditional edge took the "true" branch.
C37_Witness ==
    /\ workflow_graph = Loop
    /\ call.op = "complete_step"
    /\ result.text = "NEXT STEP"
    /\ result.prev = "b"
    /\ current_node = Loop.nodes["a"]

\* C38: active_workflow, workflow_graph and state are all unset or all
\* set; while they are unset the pointer is undefined and workflow_complete
\* is false; and workflow_complete is true only with a defined pointer.
C38_RunFieldsConsistent ==
    /\ \/ active_workflow = "None" /\ workflow_graph = NoneGraph /\ state = NoneState
       \/ active_workflow # "None" /\ workflow_graph # NoneGraph /\ state # NoneState
    /\ workflow_graph = NoneGraph => (current_node = NoneNode /\ ~workflow_complete)
    /\ workflow_complete => current_node # NoneNode

\* A run completed on a node without outgoing edge: every run field is set
\* and the pointer still names that node.
C38_Witness ==
    /\ call.op = "complete_step"
    /\ workflow_complete
    /\ active_workflow = "wake_up"
    /\ workflow_graph = WakeUp
    /\ state # NoneState
    /\ current_node = WakeUp.nodes["escalate"]

(***************************************************************************)
(* A driver of one run: start_workflow, get_next_step once, then           *)
(* complete_step again and again until the run is complete.  The service   *)
(* has no counter of its own; advances counts the driver's complete_step   *)
(* calls and MaxAdvances is where the driver gives up.                     *)
(***************************************************************************)
MaxAdvances == 6

\* The ids of the nodes the outgoing edge of a node can lead to.
Successors(g, id) ==
    IF id \in DOMAIN g.edges
    THEN EdgeTargetIds(g.edges[id]) \cap DOMAIN g.nodes
    ELSE {}

\* The ids reached from the ids in S in at most n further edges.
RECURSIVE ReachedFrom(_, _, _)
ReachedFrom(g, S, n) ==
    IF n = 0 THEN S
    ELSE ReachedFrom(g, S \cup UNION {Successors(g, id) : id \in S}, n - 1)

\* No node of g is reached from itself.
Acyclic(g) ==
    \A id \in DOMAIN g.nodes :
        id \notin ReachedFrom(g, Successors(g, id), Cardinality(DOMAIN g.nodes))

\* Every conditional edge that reads a key of the dict has a branch for the
\* value the dict gives it.
Covered(state_updates, g) ==
    \A i \in 1..Len(state_updates), src \in DOMAIN g.edges :
        (g.edges[src].type = "condition" /\ g.edges[src].state_key = state_updates[i][1])
            => TargetKey(state_updates[i][2]) \in DOMAIN g.edges[src].branches

\* What the driver passes to complete_step.
DriverBatches(g) == {q \in Batches : AllDeclared(q, g) /\ Covered(q, g)}

DriverStart(workflow_name) ==
    /\ call.op = "__init__"
    /\ StartWorkflow(workflow_name)
    /\ advances' = 0

DriverCurrentStep ==
    /\ call.op = "start_workflow"
    /\ result.exc = ""
    /\ GetNextStep
    /\ UNCHANGED advances

DriverAdvance(state_updates) ==
    /\ call.op \in {"get_next_step", "complete_step"}
    /\ Status # "Complete"
    /\ advances < MaxAdvances
    /\ CompleteStep(state_updates)
    /\ advances' = advances + 1

DriverInit ==
    /\ ServiceInit
    /\ ToolIdle
    /\ HistoryIdle
    /\ TwinIdle
    /\ DriverIdle
    /\ EngineIdle
    /\ WorkflowAgentIdle
    /\ WakeUpIdle

DriverNext ==
    \/ \E workflow_name \in WorkflowNames :
          /\ DriverStart(workflow_name)
          /\ UNCHANGED <<tool, history, workflow_agent, wake_up, engine, twin>>
    \/ /\ DriverCurrentStep
       /\ UNCHANGED <<tool, history, workflow_agent, wake_up, engine, twin>>
    \/ \E state_updates \in DriverBatches(workflow_graph) :
          /\ DriverAdvance(state_updates)
          /\ UNCHANGED <<tool, history, workflow_agent, wake_up, engine, twin>>

\* The driver keeps calling: each call returns.
SpecDriver == DriverInit /\ [][DriverNext]_vars /\ WF_vars(DriverNext)

\* C35: on a valid acyclic definition the driver's run becomes Complete,
\* after no more complete_step calls than the definition has nodes.  On any
\* definition a complete_step whose edge resolves to a node moves there and
\* leaves a step awaited, however many calls were made before: the service
\* sets no bound on a cycle.
C35_DriverCompletesAcyclic ==
    /\ []((ValidDefinition(workflow_graph) /\ Acyclic(workflow_graph))
            => advances <= Cardinality(DOMAIN workflow_graph.nodes))
    /\ (ValidDefinition(workflow_graph) /\ Acyclic(workflow_graph))
            ~> (Status = "Complete")
    /\ [][(/\ AdvanceFromStep
           /\ current_node.id \in DOMAIN workflow_graph.edges
           /\ LET resolved == ResolveEdgeTarget(workflow_graph.edges[current_node.id],
                                                state')
              IN resolved.exc = "" /\ resolved.target \in DOMAIN workflow_graph.nodes)
          => /\ Status' = "AwaitingStep"
             /\ current_node'.id \in Successors(workflow_graph, current_node.id)]_vars

\* The run of "wake_up" completed at END with the third complete_step.
C35_Witness ==
    /\ workflow_graph = WakeUp
    /\ Status = "Complete"
    /\ current_node.id = "done"
    /\ advances = 3
====
